---- MODULE Spec2Model ----
(***************************************************************************)
(* Deployment pipeline engine of automaker: DeploymentService (deploy,     *)
(* executeStep, runE2ETests, cancelDeployment, emitEvent).                  *)
(*                                                                         *)
(* The service runs on a single-threaded event loop: code between two      *)
(* awaits is one atomic action.  Every deploy() invocation is a process    *)
(* whose position (pc) is the await it is suspended at.  DeploymentResult  *)
(* objects live in a heap (dep) and this.currentDeployment is a reference  *)
(* (cur) into it, because deploy() reads and writes through                *)
(* this.currentDeployment after every await.                               *)
(***************************************************************************)
EXTENDS Integers, Sequences, FiniteSets, TLC

\* ---------------------------------------------------------------- bounds
\* operations (deploy() calls, cancelDeployment() calls, completions of an
\* awaited promise) in one behaviour
MaxOps == 6
\* number of build steps plus deploy steps of the configuration on disk
MaxSteps == 2

VARIABLES
    configFile,     \* content of .automaker/deployment.json as getDeploymentConfig returns it
    eventEmitter,   \* this.eventEmitter # null
    dep,            \* heap of DeploymentResult objects, indexed by deployment id
    cur,            \* this.currentDeployment: 0 is null, else an index into dep
    events,         \* what eventEmitter.emit('deployment_event', ...) has published, in order
    inv,            \* the deploy() invocations made so far, one frame each (see Frame)
    cancelledRuns,  \* the invocations that were in flight when cancelDeployment() took effect
    ops,            \* number of operations so far
    \* one executeCommand call
    child,          \* the subprocess spawn() returned (see NoChild)
    timer,          \* the setTimeout of executeCommand: unset, armed, fired or cleared
    promise,        \* the promise executeCommand returned
    stdout,         \* the chunks the 'data' handler of child.stdout has collected
    stderr,         \* the chunks the 'data' handler of child.stderr has collected
    handled,        \* the handlers of executeCommand that have run, in order
    \* one waitForUrl call
    clock,          \* Date.now()
    wait,           \* the frame of waitForUrl (see NoWait)
    attempts,       \* the GET attempts waitForUrl has made, in order
    \* the configuration store of one project
    storeNow,       \* Date.now() as atomicWriteJson reads it
    names,          \* the directory: the inode each file name refers to, 0 for none
    inodes,         \* the files on disk, indexed by inode (see Inode)
    saves,          \* the saveDeploymentConfig() invocations, one frame each
    settled,        \* the last save that returned with no other save since its call
    got,            \* what the last getDeploymentConfig() and hasDeploymentConfig() returned
    \* the control surface
    requests,       \* the POST /deploy requests received, one frame each
    \* one runE2ETests call after its executeCommand
    testOutput,     \* result.output, as a sequence of tokens (see Tokens)
    e2eResult,      \* the E2ETestResult it returned (see NoE2EResult)
    \* one event emitter (createEventEmitter)
    subscribers,            \* the Set of regular callbacks, in insertion order
    userAwareSubscribers,   \* the Set of user-aware callbacks, in insertion order
    unsubscribed,   \* the subscriptions ended by their unsubscribe function
    lastEmit        \* what the last emit call did (see NoEmit)

pipelineVars == <<configFile, eventEmitter, dep, cur, events, inv, cancelledRuns, ops>>

execVars == <<child, timer, promise, stdout, stderr, handled>>

\* the state of the components around the pipeline
waitVars == <<clock, wait, attempts>>

storeVars == <<storeNow, names, inodes, saves, settled, got>>

routeVars == <<requests>>

parseVars == <<testOutput, e2eResult>>

emitterVars == <<subscribers, userAwareSubscribers, unsubscribed, lastEmit>>

componentVars == <<execVars, waitVars, storeVars, routeVars, parseVars, emitterVars>>

\* what a step of one component leaves alone
outsideExec == <<pipelineVars, waitVars, storeVars, routeVars, parseVars, emitterVars>>

outsideWait == <<pipelineVars, execVars, storeVars, routeVars, parseVars, emitterVars>>

outsideStore == <<pipelineVars, execVars, waitVars, routeVars, parseVars, emitterVars>>

outsideParse == <<pipelineVars, execVars, waitVars, storeVars, routeVars, emitterVars>>

outsideEmitter == <<pipelineVars, execVars, waitVars, storeVars, routeVars, parseVars>>

vars == <<pipelineVars, componentVars>>

\* ------------------------------------------------- components when not in use
\* no subprocess yet
NoChild == [state |-> "none", code |-> <<>>, obeysTerm |-> TRUE, sigterm |-> FALSE,
            errored |-> FALSE, closed |-> FALSE]

\* a promise that is not settled
Pending == [settled |-> FALSE, value |-> <<>>]

ExecIdle ==
    /\ child = NoChild
    /\ timer = "unset"
    /\ promise = Pending
    /\ stdout = <<>>
    /\ stderr = <<>>
    /\ handled = <<>>

\* waitForUrl not called
NoWait == [pc |-> "idle", timeoutMs |-> 0, intervalMs |-> 0, startTime |-> 0,
           since |-> 0, ret |-> FALSE]

WaitIdle ==
    /\ clock = 0
    /\ wait = NoWait
    /\ attempts = <<>>

\* no file of the project on disk
NoNames == [target |-> 0, temp |-> <<>>]

\* no save has returned yet
NoSettled == [valid |-> FALSE, cfg |-> <<>>, resave |-> FALSE]

\* nothing read yet
NoGot == [valid |-> FALSE, threw |-> FALSE, value |-> <<>>, has |-> FALSE,
          file |-> "absent", settled |-> NoSettled]

StoreIdle ==
    /\ storeNow = 1
    /\ names = NoNames
    /\ inodes = <<>>
    /\ saves = <<>>
    /\ settled = NoSettled
    /\ got = NoGot

\* no request received
RoutesIdle == requests = <<>>

\* runE2ETests has returned nothing
NoE2EResult ==
    [status |-> "none", passed |-> <<>>, failed |-> <<>>, skipped |-> <<>>,
     error |-> <<>>, ran |-> "none"]

ParseIdle ==
    /\ testOutput = <<>>
    /\ e2eResult = NoE2EResult

\* emit not called yet.  The record of an emit call:
\*   atCall   the subscriptions when emit was called, as <<kind, callback>>
\*   ended    the subscriptions that their unsubscribe function had ended then
\*   calls    the callbacks it invoked, in order, with the targetUser passed
\*   threw    whether emit threw
\*   thrown   the subscriptions whose callback threw
\*   added, removed   the subscriptions callbacks made and ended during the call
NoEmit == [done |-> FALSE, atCall |-> {}, ended |-> {}, calls |-> <<>>, threw |-> FALSE,
           thrown |-> {}, added |-> {}, removed |-> {}]

\* an emitter as createEventEmitter returns it
EmitterIdle ==
    /\ subscribers = <<>>
    /\ userAwareSubscribers = <<>>
    /\ unsubscribed = {}
    /\ lastEmit = NoEmit

ComponentsIdle ==
    ExecIdle /\ WaitIdle /\ StoreIdle /\ RoutesIdle /\ ParseIdle /\ EmitterIdle

\* ------------------------------------------------------------ configuration
\* A DeploymentStep: its name and its continueOnError flag.  The command, the
\* working directory, the environment and the timeout decide only what the
\* step executor returns, which StepDone draws from BOOLEAN.
StepList(ph, n) ==
    UNION { { [i \in 1..k |-> [name |-> <<ph, i>>, continueOnError |-> f[i]]] :
                f \in [1..k -> BOOLEAN] } : k \in 0..n }

\* e2eTests: "none" (not configured), "cmd" (no waitForUrl), "wait" (waitForUrl set)
WellFormedConfigs ==
    { [valid |-> TRUE, buildSteps |-> b, deploySteps |-> d,
       healthCheckUrl |-> h, e2eTests |-> e] :
        b \in StepList("build", MaxSteps), d \in StepList("deploy", MaxSteps),
        h \in BOOLEAN, e \in {"none", "cmd", "wait"} }

\* A stored document whose buildSteps is not iterable (for instance null): the
\* merge over the defaults keeps it, and the for..of loop raises a TypeError.
MalformedConfig ==
    [valid |-> FALSE, buildSteps |-> <<>>, deploySteps |-> <<>>,
     healthCheckUrl |-> FALSE, e2eTests |-> "none"]

Configs ==
    { c \in WellFormedConfigs : Len(c.buildSteps) + Len(c.deploySteps) <= MaxSteps }
        \cup {MalformedConfig}

\* ------------------------------------------------------------------ state
NoError == <<>>

NewDeployment(id) ==
    [id |-> id, status |-> "building", buildResults |-> <<>>, deployResults |-> <<>>,
     e2eResult |-> "unset", error |-> NoError, finishedAt |-> FALSE]

IsRunningStatus(st) == st \notin {"success", "failed", "idle"}

isDeploymentRunning == cur # 0 /\ IsRunningStatus(dep[cur].status)

\* The frame of one deploy() invocation:
\*   pc    the await it is suspended at ("loading", "build", "deploy", "health",
\*         "e2eWait", "e2eCmd"), or "returned", or "threw"
\*   cfg   its local `config`
\*   i     the position of the for..of loop it is in
\*   ret   the reference it returned (0 before), snap the returned object as it
\*         was at the return
\*   h     what the invocation has done so far (history)
Frame(pcv) ==
    [pc |-> pcv, cfg |-> MalformedConfig, i |-> 0, ret |-> 0,
     snap |-> NewDeployment(0), h |-> <<>>]

Calls == DOMAIN inv

Init ==
    /\ configFile \in Configs
    /\ eventEmitter = FALSE
    /\ dep = <<>>
    /\ cur = 0
    /\ events = <<>>
    /\ inv = <<>>
    /\ cancelledRuns = {}
    /\ ops = 0
    /\ ComponentsIdle

\* ------------------------------------------------- one synchronous segment
\* The code between two awaits of one deploy() invocation p works on a local
\* copy s of the shared state: s.dep, s.cur, s.ev (events), and p's own
\* s.h (history), s.pc, s.i, s.ret, s.snap; s.em is this.eventEmitter # null.
Segment(p) ==
    [dep |-> dep, cur |-> cur, ev |-> events, em |-> eventEmitter, h |-> inv[p].h,
     pc |-> inv[p].pc, i |-> inv[p].i, ret |-> inv[p].ret, snap |-> inv[p].snap]

\* A history entry: what p did (op), on which phase or with which status (ph),
\* at which step (i), with which outcome (ok), through which reference (rec).
Did(s, op, ph, i, ok) ==
    [s EXCEPT !.h = Append(@, [op |-> op, ph |-> ph, i |-> i, ok |-> ok, rec |-> s.cur])]

\* an emitEvent that publishes whether or not an emitter is attached
emitEventUnguarded(s, p, type, stepName) ==
    IF s.cur = 0 THEN s
    ELSE [s EXCEPT !.ev = Append(@, [type |-> type, deploymentId |-> s.dep[s.cur].id,
                                     stepName |-> stepName, by |-> p])]

\* emitEvent: nothing without an emitter or without a current deployment; the
\* event carries this.currentDeployment.id as it is when the event is emitted.
emitEvent(s, p, type, stepName) ==
    IF ~s.em \/ s.cur = 0 THEN s
    ELSE [s EXCEPT !.ev = Append(@, [type |-> type, deploymentId |-> s.dep[s.cur].id,
                                     stepName |-> stepName, by |-> p])]

NoStep == <<>>

\* this.currentDeployment.status = st
setStatus(s, st) ==
    Did([s EXCEPT !.dep[s.cur].status = st], "status", st, 0, TRUE)

\* return this.currentDeployment
returnCurrent(s) ==
    Did([s EXCEPT !.pc = "returned", !.ret = s.cur, !.snap = s.dep[s.cur]],
        "return", s.dep[s.cur].status, 0, TRUE)

\* a catch block that raises again instead of returning
catchErrorRethrows(s, p, message) ==
    [setStatus(s, "failed") EXCEPT !.pc = "threw"]

\* a catch block that does not record the error's message
catchErrorDropsMessage(s, p, message) ==
    LET s1 == setStatus(s, "failed")
        s2 == [s1 EXCEPT !.dep[s.cur].finishedAt = TRUE]
    IN  returnCurrent(emitEvent(s2, p, "deployment_failed", NoStep))

\* the catch block of deploy(), then the return
catchError(s, p, message) ==
    LET s1 == setStatus(s, "failed")
        s2 == [s1 EXCEPT !.dep[s.cur].finishedAt = TRUE, !.dep[s.cur].error = message]
        s3 == emitEvent(s2, p, "deployment_failed", NoStep)
    IN  returnCurrent(s3)

\* the "Success" block of deploy(), then the return
completeSuccess(s, p) ==
    LET s1 == setStatus(s, "success")
        s2 == [s1 EXCEPT !.dep[s.cur].finishedAt = TRUE]
        s3 == emitEvent(s2, p, "deployment_completed", NoStep)
    IN  returnCurrent(s3)

\* "Run E2E tests": up to the first await of runE2ETests
enterE2E(s, p, c) ==
    IF c.e2eTests = "none" THEN completeSuccess(s, p)
    ELSE LET s1 == setStatus(s, "running_tests")
             s2 == emitEvent(s1, p, "e2e_started", NoStep)
         IN  IF c.e2eTests = "wait"
             THEN [Did(s2, "probe", "e2eWait", 0, TRUE) EXCEPT !.pc = "e2eWait"]
             ELSE [Did(s2, "e2eCmd", "e2e", 0, TRUE) EXCEPT !.pc = "e2eCmd"]

\* a health phase entered whether or not healthCheckUrl is configured
enterHealthUnconditional(s, p, c) ==
    LET s1 == setStatus(s, "waiting_for_health")
        s2 == emitEvent(s1, p, "health_check_started", NoStep)
    IN  [Did(s2, "probe", "health", 0, TRUE) EXCEPT !.pc = "health"]

\* "Wait for health check": up to the await of waitForUrl
enterHealth(s, p, c) ==
    IF ~c.healthCheckUrl THEN enterE2E(s, p, c)
    ELSE LET s1 == setStatus(s, "waiting_for_health")
             s2 == emitEvent(s1, p, "health_check_started", NoStep)
         IN  [Did(s2, "probe", "health", 0, TRUE) EXCEPT !.pc = "health"]

\* executeStep up to its await of executeCommand
startStep(s, p, ph, step, i) ==
    LET s1 == emitEvent(s, p, IF ph = "build" THEN "build_step_started"
                              ELSE "deploy_step_started", step.name)
    IN  [Did(s1, "start", ph, i, TRUE) EXCEPT !.pc = ph, !.i = i]

\* the deploy loop from its i-th step on
deployFrom(s, p, c, i) ==
    IF i > Len(c.deploySteps) THEN enterHealth(s, p, c)
    ELSE startStep(s, p, "deploy", c.deploySteps[i], i)

\* a deploy phase entered without an event
enterDeploySilent(s, p, c) ==
    deployFrom(setStatus(s, "deploying"), p, c, 1)

\* "Execute deploy steps"
enterDeploy(s, p, c) ==
    LET s1 == setStatus(s, "deploying")
        s2 == emitEvent(s1, p, "deployment_started", NoStep)
    IN  deployFrom(s2, p, c, 1)

\* a build loop that leaves after its first step
buildFromLeavesEarly(s, p, c, i) ==
    IF ~c.valid THEN catchError(s, p, <<"TypeError">>)
    ELSE IF i > 1 \/ i > Len(c.buildSteps) THEN enterDeploy(s, p, c)
    ELSE startStep(s, p, "build", c.buildSteps[i], i)

\* the build loop from its i-th step on
buildFrom(s, p, c, i) ==
    IF ~c.valid THEN catchError(s, p, <<"TypeError">>)
    ELSE IF i > Len(c.buildSteps) THEN enterDeploy(s, p, c)
    ELSE startStep(s, p, "build", c.buildSteps[i], i)

\* executeStep after the await, then the loop body: push the result, abort on a
\* failure without continueOnError, else go on with the next step
StepResult(step, ok) ==
    [stepName |-> step.name, status |-> IF ok THEN "success" ELSE "failed"]

\* AbortsOn with the flag read the wrong way round
AbortsOnInverted(step, result) == result.status = "failed" /\ step.continueOnError

\* AbortsOn without the continueOnError test
AbortsOnAnyFailure(step, result) == result.status = "failed"

AbortsOn(step, result) == result.status = "failed" /\ ~step.continueOnError

afterStep(s, p, c, ph, i, ok) ==
    LET step   == IF ph = "build" THEN c.buildSteps[i] ELSE c.deploySteps[i]
        result == StepResult(step, ok)
        s1 == emitEvent(s, p, IF ph = "build" THEN "build_step_completed"
                              ELSE "deploy_step_completed", step.name)
        s2 == IF ph = "build"
              THEN [s1 EXCEPT !.dep[s.cur].buildResults = Append(@, result)]
              ELSE [s1 EXCEPT !.dep[s.cur].deployResults = Append(@, result)]
        s3 == Did(s2, "result", ph, i, ok)
    IN  IF AbortsOn(step, result)
        THEN catchError(s3, p, <<IF ph = "build" THEN "Build step failed"
                                 ELSE "Deploy step failed", step.name>>)
        ELSE IF ph = "build" THEN buildFrom(s3, p, c, i + 1)
        ELSE deployFrom(s3, p, c, i + 1)

\* a health phase that does not test what the probe returned
afterHealthIgnoresResult(s, p, c, healthOk) ==
    enterE2E(Did(emitEvent(s, p, "health_check_completed", NoStep),
                 "probed", "health", 0, healthOk), p, c)

\* deploy() after the await of waitForUrl(config.healthCheckUrl)
afterHealth(s, p, c, healthOk) ==
    LET s1 == Did(emitEvent(s, p, "health_check_completed", NoStep),
                  "probed", "health", 0, healthOk)
    IN  IF ~healthOk THEN catchError(s1, p, <<"Health check failed">>)
        ELSE enterE2E(s1, p, c)

\* an E2E phase that goes on to the "Success" block whatever the tests returned
afterE2EIgnoresResult(s, p, e2eStatus) ==
    LET s1 == Did([s EXCEPT !.dep[s.cur].e2eResult = e2eStatus],
                  "e2eResult", "e2e", 0, e2eStatus = "passed")
    IN  completeSuccess(emitEvent(s1, p, "e2e_completed", NoStep), p)

\* deploy() after the await of runE2ETests
afterE2E(s, p, e2eStatus) ==
    LET s1 == Did([s EXCEPT !.dep[s.cur].e2eResult = e2eStatus],
                  "e2eResult", "e2e", 0, e2eStatus = "passed")
        s2 == emitEvent(s1, p, "e2e_completed", NoStep)
    IN  IF e2eStatus = "failed" THEN catchError(s2, p, <<"E2E tests failed">>)
        ELSE completeSuccess(s2, p)

\* a runE2ETests that runs the command whatever the probe returned
afterE2EWaitRunsCommand(s, p, urlAvailable) ==
    [Did(Did(s, "probed", "e2eWait", 0, urlAvailable), "e2eCmd", "e2e", 0, TRUE)
        EXCEPT !.pc = "e2eCmd"]

\* runE2ETests after its await of waitForUrl(e2eConfig.waitForUrl)
afterE2EWait(s, p, urlAvailable) ==
    LET s1 == Did(s, "probed", "e2eWait", 0, urlAvailable)
    IN  IF ~urlAvailable THEN afterE2E(s1, p, "failed")
        ELSE [Did(s1, "e2eCmd", "e2e", 0, TRUE) EXCEPT !.pc = "e2eCmd"]

\* deploy() after the await of getDeploymentConfig: the new DeploymentResult
\* becomes the current one, then the pipeline runs up to its first await
afterConfig(s, p, c) ==
    LET id == Len(s.dep) + 1
        s1 == [s EXCEPT !.dep = Append(@, NewDeployment(id)), !.cur = id]
        s2 == Did(s1, "create", "building", 0, TRUE)
        s3 == emitEvent(s2, p, "deployment_started", NoStep)
    IN  buildFrom(s3, p, c, 1)

\* the segment's outcome becomes the next state
Commit(p, c, s) ==
    /\ dep' = s.dep
    /\ cur' = s.cur
    /\ events' = s.ev
    /\ inv' = [inv EXCEPT ![p] = [pc |-> s.pc, cfg |-> c, i |-> s.i, ret |-> s.ret,
                                  snap |-> s.snap, h |-> s.h]]

Op == ops < MaxOps /\ ops' = ops + 1

\* ---------------------------------------------------------------- actions
\* setEventEmitter(emitter): the server attaches the emitter when it wires its
\* services, before it serves a request
setEventEmitter ==
    /\ ~eventEmitter
    /\ inv = <<>>
    /\ eventEmitter' = TRUE
    /\ UNCHANGED <<configFile, dep, cur, events, inv, cancelledRuns, ops>>
    /\ UNCHANGED componentVars

\* deploy() without its guard
deployGuardMissing == "loading"

\* the guard of deploy(): throw, or go on to
\* `await this.getDeploymentConfig(projectPath)`
deployGuard == IF isDeploymentRunning THEN "threw" ELSE "loading"

\* deploy() is called
deploy ==
    /\ Op
    /\ inv' = Append(inv, Frame(deployGuard))
    /\ UNCHANGED <<configFile, eventEmitter, dep, cur, events, cancelledRuns>>
    /\ UNCHANGED componentVars

\* getDeploymentConfig resolves
ConfigLoaded(p) ==
    /\ Op
    /\ inv[p].pc = "loading"
    /\ Commit(p, configFile, afterConfig(Segment(p), p, configFile))
    /\ UNCHANGED <<configFile, eventEmitter, cancelledRuns>>
    /\ UNCHANGED componentVars

\* executeCommand resolves for the build or deploy step p waits for
StepDone(p) ==
    /\ Op
    /\ inv[p].pc \in {"build", "deploy"}
    /\ \E ok \in BOOLEAN :
          Commit(p, inv[p].cfg,
                 afterStep(Segment(p), p, inv[p].cfg, inv[p].pc, inv[p].i, ok))
    /\ UNCHANGED <<configFile, eventEmitter, cancelledRuns>>
    /\ UNCHANGED componentVars

\* waitForUrl(config.healthCheckUrl) resolves
HealthDone(p) ==
    /\ Op
    /\ inv[p].pc = "health"
    /\ \E healthOk \in BOOLEAN :
          Commit(p, inv[p].cfg, afterHealth(Segment(p), p, inv[p].cfg, healthOk))
    /\ UNCHANGED <<configFile, eventEmitter, cancelledRuns>>
    /\ UNCHANGED componentVars

\* waitForUrl(e2eConfig.waitForUrl) resolves inside runE2ETests
E2EWaitDone(p) ==
    /\ Op
    /\ inv[p].pc = "e2eWait"
    /\ \E urlAvailable \in BOOLEAN :
          Commit(p, inv[p].cfg, afterE2EWait(Segment(p), p, urlAvailable))
    /\ UNCHANGED <<configFile, eventEmitter, cancelledRuns>>
    /\ UNCHANGED componentVars

\* executeCommand(e2eConfig.command) resolves inside runE2ETests
E2ECmdDone(p) ==
    /\ Op
    /\ inv[p].pc = "e2eCmd"
    /\ \E success \in BOOLEAN :
          Commit(p, inv[p].cfg,
                 afterE2E(Segment(p), p, IF success THEN "passed" ELSE "failed"))
    /\ UNCHANGED <<configFile, eventEmitter, cancelledRuns>>
    /\ UNCHANGED componentVars

\* the body of cancelDeployment() when a run is in flight
cancelled(s) ==
    LET s1 == [s EXCEPT !.dep[s.cur].status = "failed",
                        !.dep[s.cur].finishedAt = TRUE,
                        !.dep[s.cur].error = <<"Deployment cancelled by user">>]
    IN  emitEvent(s1, 0, "deployment_failed", NoStep)

\* the shared state as cancelDeployment() sees it
Shared == [dep |-> dep, cur |-> cur, ev |-> events, em |-> eventEmitter]

\* a cancelDeployment() that tests only this.currentDeployment
cancelCallUnguarded(s) ==
    IF s.cur # 0 THEN cancelled(s) ELSE s

\* cancelDeployment()
cancelCall(s) ==
    IF s.cur # 0 /\ IsRunningStatus(s.dep[s.cur].status) THEN cancelled(s) ELSE s

\* cancelDeployment() is called while a run is in flight (a call that finds no
\* run in flight changes nothing: it is no step)
cancelDeployment ==
    /\ Op
    /\ isDeploymentRunning
    /\ LET s == cancelCall(Shared)
       IN  dep' = s.dep /\ cur' = s.cur /\ events' = s.ev
    /\ cancelledRuns' = cancelledRuns \cup {p \in Calls : inv[p].pc \notin {"returned", "threw"}}
    /\ UNCHANGED <<configFile, eventEmitter, inv>>
    /\ UNCHANGED componentVars

Next ==
    \/ setEventEmitter
    \/ deploy
    \/ \E p \in Calls : ConfigLoaded(p)
    \/ \E p \in Calls : StepDone(p)
    \/ \E p \in Calls : HealthDone(p)
    \/ \E p \in Calls : E2EWaitDone(p)
    \/ \E p \in Calls : E2ECmdDone(p)
    \/ cancelDeployment

Spec == Init /\ [][Next]_vars

\* ------------------------------------------------------- reading a history
H(p) == inv[p].h

StepOf(c, ph, i) == IF ph = "build" THEN c.buildSteps[i] ELSE c.deploySteps[i]

ResultsOf(d, ph) == IF ph = "build" THEN d.buildResults ELSE d.deployResults

IsResult(e) == e.op = "result"

\* entry e of p's history is a step result that aborts p's run
IsFatal(p, e) == IsResult(e) /\ ~e.ok /\ ~StepOf(inv[p].cfg, e.ph, e.i).continueOnError

\* entry e of p's history is a failed step result that the run tolerates
IsTolerated(p, e) == IsResult(e) /\ ~e.ok /\ StepOf(inv[p].cfg, e.ph, e.i).continueOnError

\* entry e of p's history starts work: a step, a probe or the E2E command
StartsWork(e) == e.op \in {"start", "probe", "e2eCmd"}

InFlight(p) == inv[p].pc \notin {"returned", "threw"}

Executing(p) == inv[p].pc \in {"build", "deploy", "health", "e2eWait", "e2eCmd"}

\* ------------------------------------------------------------------ claims

\* C1: at most one pipeline run executes at a time: of the deploy() calls made,
\* at most one is past the isDeploymentRunning() guard and not yet returned.
C1_AtMostOneRun ==
    \A p, q \in Calls : (Executing(p) /\ Executing(q)) => p = q

\* C2: the status of a DeploymentResult only moves forward along building ->
\* deploying -> waiting_for_health -> running_tests -> {success, failed}, and once
\* it is success or failed no later action changes it.
StatusRank(st) ==
    CASE st = "building" -> 1
      [] st = "deploying" -> 2
      [] st = "waiting_for_health" -> 3
      [] st = "running_tests" -> 4
      [] OTHER -> 5

C2_StatusMovesForward ==
    [][\A id \in DOMAIN dep :
          /\ StatusRank(dep'[id].status) >= StatusRank(dep[id].status)
          /\ dep[id].status \in {"success", "failed"}
                => dep'[id].status = dep[id].status]_vars

\* C3: after a deployment_completed or deployment_failed event with some
\* deployment id, no further event with that id is emitted.
IsTerminalEvent(e) == e.type \in {"deployment_completed", "deployment_failed"}

C3_TerminalEventIsLast ==
    \A k \in DOMAIN events :
        IsTerminalEvent(events[k]) =>
            \A j \in DOMAIN events : j > k => events[j].deploymentId # events[k].deploymentId

\* C4: a deploy() call made while isDeploymentRunning() is true throws, emits no
\* event, starts no step and leaves the in-flight DeploymentResult, the current
\* reference and every other invocation unchanged.
C4_RejectedDeployChangesNothing ==
    [][(isDeploymentRunning /\ Len(inv') = Len(inv) + 1) =>
          /\ inv'[Len(inv')].pc = "threw"
          /\ inv'[Len(inv')].h = <<>>
          /\ \A p \in Calls : inv'[p] = inv[p]
          /\ dep' = dep /\ cur' = cur /\ events' = events]_vars

C4_Witness ==
    \E p \in Calls : inv[p].pc = "threw" /\ isDeploymentRunning /\ events # <<>>

\* C5 (as claimed): deploy() never raises an exception to its caller.
C5_NeverThrows ==
    \A p \in Calls : inv[p].pc # "threw"

\* C5 (amended): deploy() raises only at its guard, when a deployment is in
\* progress; an invocation that passed the guard never raises: when anything
\* fails during orchestration it returns the current DeploymentResult with status
\* failed and the error set.
OrchestrationFailed(p) ==
    \/ inv[p].pc # "loading" /\ ~inv[p].cfg.valid
    \/ \E k \in DOMAIN H(p) :
          \/ IsFatal(p, H(p)[k])
          \/ H(p)[k].op \in {"probed", "e2eResult"} /\ ~H(p)[k].ok

C5_ThrowsOnlyAtGuard ==
    [][/\ \A p \in DOMAIN inv' :
             inv'[p].pc = "threw" =>
                 \/ p \in Calls /\ inv[p].pc = "threw"
                 \/ p \notin Calls /\ isDeploymentRunning
       /\ \A p \in DOMAIN inv' :
             (inv'[p].pc # "threw" /\ OrchestrationFailed(p)') =>
                 /\ inv'[p].pc = "returned"
                 /\ inv'[p].ret # 0
                 /\ inv'[p].snap.status = "failed"
                 /\ inv'[p].snap.error # NoError]_vars

C5_Witness ==
    /\ \E p \in Calls : inv[p].pc = "threw"
    /\ \E p \in Calls : inv[p].pc = "returned" /\ inv[p].snap.error = <<"E2E tests failed">>

\* C6: sequential abort.  When a step of p's run fails without continueOnError,
\* the run starts nothing after it (no step, no probe, no E2E command) and
\* returns at once: the returned DeploymentResult has status failed, an error
\* that carries the step's name, and the failing StepResult last in the
\* phase's result list.
C6_SequentialAbort ==
    \A p \in Calls : \A k \in DOMAIN H(p) :
        IsFatal(p, H(p)[k]) =>
            LET e    == H(p)[k]
                step == StepOf(inv[p].cfg, e.ph, e.i)
                r    == inv[p].snap
            IN  /\ \A j \in DOMAIN H(p) : j > k => ~StartsWork(H(p)[j]) /\ ~IsResult(H(p)[j])
                /\ inv[p].pc = "returned"
                /\ r.status = "failed"
                /\ r.error = <<IF e.ph = "build" THEN "Build step failed"
                               ELSE "Deploy step failed", step.name>>
                /\ ResultsOf(r, e.ph) # <<>>
                /\ ResultsOf(r, e.ph)[Len(ResultsOf(r, e.ph))]
                      = [stepName |-> step.name, status |-> "failed"]

C6_Witness ==
    \E p \in Calls : \E k \in DOMAIN H(p) :
        /\ IsFatal(p, H(p)[k])
        /\ H(p)[k].ph = "build" /\ H(p)[k].i = 1
        /\ Len(inv[p].cfg.buildSteps) = 2
        /\ inv[p].cfg.e2eTests # "none"

\* C7: continue-on-error.  When a step of p's run fails with continueOnError, its
\* failed StepResult is in the DeploymentResult it was recorded in, the run goes
\* straight on (to the next step of the phase, or to what follows the phase) and
\* the failure alone does not end the run in failed: a run that returns failed
\* has another cause.  With build steps [A fails with continueOnError, B
\* succeeds] A's result comes before B's and the deploy phase is entered.
HasOtherCause(p) ==
    \/ ~inv[p].cfg.valid
    \/ \E k \in DOMAIN H(p) :
          \/ IsFatal(p, H(p)[k])
          \/ H(p)[k].op \in {"probed", "e2eResult"} /\ ~H(p)[k].ok

\* position of the result of step (ph, i) of p's run in the list of record d
Recorded(d, name, status) ==
    \E n \in DOMAIN d : d[n] = [stepName |-> name, status |-> status]

C7_ContinueOnError ==
    \A p \in Calls :
        /\ \A k \in DOMAIN H(p) :
              IsTolerated(p, H(p)[k]) =>
                  LET e == H(p)[k]
                      c == inv[p].cfg
                      n == IF e.ph = "build" THEN Len(c.buildSteps) ELSE Len(c.deploySteps)
                  IN  /\ Recorded(ResultsOf(dep[e.rec], e.ph), StepOf(c, e.ph, e.i).name,
                                  "failed")
                      /\ k < Len(H(p))
                      /\ IF e.i < n
                         THEN H(p)[k+1].op = "start" /\ H(p)[k+1].ph = e.ph
                              /\ H(p)[k+1].i = e.i + 1
                         ELSE H(p)[k+1].op = "status" /\ H(p)[k+1].ph # "failed"
        /\ (inv[p].pc = "returned" /\ inv[p].snap.status = "failed") => HasOtherCause(p)
        /\ \A k \in DOMAIN H(p) :
              (/\ k > 2
               /\ Len(inv[p].cfg.buildSteps) = 2
               /\ IsTolerated(p, H(p)[k-2]) /\ H(p)[k-2].ph = "build" /\ H(p)[k-2].i = 1
               /\ IsResult(H(p)[k]) /\ H(p)[k].ph = "build" /\ H(p)[k].i = 2 /\ H(p)[k].ok)
              => /\ k < Len(H(p))
                 /\ H(p)[k+1].op = "status" /\ H(p)[k+1].ph = "deploying"
                 /\ H(p)[k].rec = H(p)[k-2].rec =>
                       \E a, b \in DOMAIN dep[H(p)[k].rec].buildResults :
                           /\ a < b
                           /\ dep[H(p)[k].rec].buildResults[a]
                                 = [stepName |-> <<"build", 1>>, status |-> "failed"]
                           /\ dep[H(p)[k].rec].buildResults[b]
                                 = [stepName |-> <<"build", 2>>, status |-> "success"]

C7_Witness ==
    \E p \in Calls :
        /\ Len(inv[p].cfg.buildSteps) = 2
        /\ inv[p].pc = "returned" /\ inv[p].snap.status = "success"
        /\ inv[p].snap.buildResults
              = << [stepName |-> <<"build", 1>>, status |-> "failed"],
                   [stepName |-> <<"build", 2>>, status |-> "success"] >>
        /\ \E k \in DOMAIN H(p) : H(p)[k].op = "status" /\ H(p)[k].ph = "deploying"

\* C8: phase ordering within one run.  A deploy step starts only after every
\* configured build step has a result that is a success or a failure with
\* continueOnError; the health probe starts only after every deploy step has
\* such a result; the E2E phase starts only after that and, when a health check
\* is configured, after the probe returned true.  Steps run one at a time in
\* configuration order: a step starts right after its predecessor's result, and
\* nothing is started between a step's start and its result.
Passed(p, ph, i, before) ==
    \E k \in DOMAIN H(p) :
        /\ k < before
        /\ IsResult(H(p)[k]) /\ H(p)[k].ph = ph /\ H(p)[k].i = i
        /\ H(p)[k].ok \/ StepOf(inv[p].cfg, ph, i).continueOnError

AllPassed(p, ph, before) ==
    \A i \in DOMAIN (IF ph = "build" THEN inv[p].cfg.buildSteps ELSE inv[p].cfg.deploySteps) :
        Passed(p, ph, i, before)

HealthPassed(p, before) ==
    \E k \in DOMAIN H(p) :
        k < before /\ H(p)[k].op = "probed" /\ H(p)[k].ph = "health" /\ H(p)[k].ok

C8_PhaseOrdering ==
    \A p \in Calls : \A k \in DOMAIN H(p) :
        LET e == H(p)[k] IN
        /\ (e.op = "start" /\ e.ph = "deploy") => AllPassed(p, "build", k)
        /\ (e.op = "probe" /\ e.ph = "health") =>
              AllPassed(p, "build", k) /\ AllPassed(p, "deploy", k)
        /\ ((e.op = "probe" /\ e.ph = "e2eWait") \/ e.op = "e2eCmd") =>
              /\ AllPassed(p, "build", k) /\ AllPassed(p, "deploy", k)
              /\ inv[p].cfg.healthCheckUrl => HealthPassed(p, k)
        /\ e.op = "start" =>
              /\ e.i > 1 => (IsResult(H(p)[k-1]) /\ H(p)[k-1].ph = e.ph
                             /\ H(p)[k-1].i = e.i - 1)
              /\ \A j \in 1..(e.i - 1) : Passed(p, e.ph, j, k)
              /\ k < Len(H(p)) => (IsResult(H(p)[k+1]) /\ H(p)[k+1].ph = e.ph
                                   /\ H(p)[k+1].i = e.i)
              /\ k = Len(H(p)) => (inv[p].pc = e.ph /\ inv[p].i = e.i)
              /\ \A j \in DOMAIN H(p) :
                    (j # k /\ H(p)[j].op = "start") =>
                        (H(p)[j].ph # e.ph \/ H(p)[j].i # e.i)

C8_Witness ==
    \E p \in Calls :
        /\ \E k \in DOMAIN H(p) : H(p)[k].op = "start" /\ H(p)[k].ph = "build"
        /\ \E k \in DOMAIN H(p) : H(p)[k].op = "start" /\ H(p)[k].ph = "deploy"
        /\ \E k \in DOMAIN H(p) : H(p)[k].op = "probed" /\ H(p)[k].ph = "health"
        /\ \E k \in DOMAIN H(p) : H(p)[k].op = "e2eCmd"

\* C9: health gate.  When the health probe of p's run returns false, the run
\* returns at once with status failed and the health-check error; the run never
\* sets the status running_tests, emits no e2e_started event, and starts neither
\* the E2E URL wait nor the E2E command.
C9_HealthGateBlocksE2E ==
    \A p \in Calls : \A k \in DOMAIN H(p) :
        (H(p)[k].op = "probed" /\ H(p)[k].ph = "health" /\ ~H(p)[k].ok) =>
            /\ inv[p].pc = "returned"
            /\ inv[p].snap.status = "failed"
            /\ inv[p].snap.error = <<"Health check failed">>
            /\ \A j \in DOMAIN H(p) :
                  /\ ~(H(p)[j].op = "status" /\ H(p)[j].ph = "running_tests")
                  /\ H(p)[j].op \notin {"e2eCmd", "e2eResult"}
                  /\ ~(H(p)[j].op = "probe" /\ H(p)[j].ph = "e2eWait")
            /\ \A j \in DOMAIN events :
                  ~(events[j].by = p /\ events[j].type \in {"e2e_started", "e2e_completed"})

C9_Witness ==
    \E p \in Calls : \E k \in DOMAIN H(p) :
        /\ H(p)[k].op = "probed" /\ H(p)[k].ph = "health" /\ ~H(p)[k].ok
        /\ inv[p].cfg.e2eTests # "none"
        /\ eventEmitter

\* C10: conditional phases.  A run sets the status waiting_for_health if and only
\* if healthCheckUrl is configured and its build and deploy phases finished
\* without abort; it sets the status running_tests if and only if e2eTests is
\* configured and all earlier phases passed.  With an emitter attached,
\* health_check_started is emitted exactly when the run sets waiting_for_health,
\* health_check_completed exactly when the probe has returned, and e2e_started
\* exactly when the run sets running_tests.
SetStatus(p, st) == \E k \in DOMAIN H(p) : H(p)[k].op = "status" /\ H(p)[k].ph = st

Emitted(p, type) == \E j \in DOMAIN events : events[j].by = p /\ events[j].type = type

StepsPassed(p) ==
    /\ inv[p].cfg.valid
    /\ inv[p].pc \notin {"loading", "threw"}
    /\ AllPassed(p, "build", Len(H(p)) + 1)
    /\ AllPassed(p, "deploy", Len(H(p)) + 1)

C10_ConditionalPhases ==
    \A p \in Calls :
        /\ SetStatus(p, "waiting_for_health") <=>
              (inv[p].cfg.healthCheckUrl /\ StepsPassed(p))
        /\ SetStatus(p, "running_tests") <=>
              /\ inv[p].cfg.e2eTests # "none"
              /\ StepsPassed(p)
              /\ inv[p].cfg.healthCheckUrl => HealthPassed(p, Len(H(p)) + 1)
        /\ eventEmitter =>
              /\ Emitted(p, "health_check_started") <=> SetStatus(p, "waiting_for_health")
              /\ Emitted(p, "health_check_completed") <=>
                    \E k \in DOMAIN H(p) : H(p)[k].op = "probed" /\ H(p)[k].ph = "health"
              /\ Emitted(p, "e2e_started") <=> SetStatus(p, "running_tests")

C10_Witness ==
    \E p \in Calls :
        /\ SetStatus(p, "waiting_for_health")
        /\ SetStatus(p, "running_tests")
        /\ Emitted(p, "health_check_completed")
        /\ Emitted(p, "e2e_started")

\* C11: E2E URL wait.  When e2eTests.waitForUrl is configured, the E2E phase of
\* p's run probes that URL first and runs the E2E command only after the probe
\* returned true.  When the probe times out the run never executes the E2E
\* command and returns at once: the returned DeploymentResult has an e2eResult
\* with status failed, status failed and the E2E error.
C11_E2EWaitGatesCommand ==
    \A p \in Calls : \A k \in DOMAIN H(p) :
        LET e == H(p)[k] IN
        /\ (inv[p].cfg.e2eTests = "wait" /\ e.op = "status" /\ e.ph = "running_tests") =>
              /\ k < Len(H(p))
              /\ H(p)[k+1].op = "probe" /\ H(p)[k+1].ph = "e2eWait"
        /\ (inv[p].cfg.e2eTests = "wait" /\ e.op = "e2eCmd") =>
              /\ k > 2
              /\ H(p)[k-1].op = "probed" /\ H(p)[k-1].ph = "e2eWait" /\ H(p)[k-1].ok
              /\ H(p)[k-2].op = "probe" /\ H(p)[k-2].ph = "e2eWait"
        /\ (e.op = "probed" /\ e.ph = "e2eWait" /\ ~e.ok) =>
              /\ \A j \in DOMAIN H(p) : H(p)[j].op # "e2eCmd"
              /\ inv[p].pc = "returned"
              /\ inv[p].snap.e2eResult = "failed"
              /\ inv[p].snap.status = "failed"
              /\ inv[p].snap.error = <<"E2E tests failed">>

C11_Witness ==
    \E p \in Calls : \E k \in DOMAIN H(p) :
        /\ H(p)[k].op = "probed" /\ H(p)[k].ph = "e2eWait" /\ ~H(p)[k].ok
        /\ inv[p].cfg.healthCheckUrl
        /\ inv[p].pc = "returned"

\* C12: E2E command failure.  When the E2E command of p's run fails, the run
\* returns at once with status failed and the E2E error, the returned
\* DeploymentResult holds the E2ETestResult with status failed, and, with an
\* emitter attached, the run emits e2e_completed, then deployment_failed, and
\* never deployment_completed.
E2ECommandFailed(p) ==
    \E k \in DOMAIN H(p) :
        /\ k > 1
        /\ H(p)[k].op = "e2eResult" /\ ~H(p)[k].ok
        /\ H(p)[k-1].op = "e2eCmd"

C12_E2EFailureIsFatal ==
    \A p \in Calls :
        E2ECommandFailed(p) =>
            /\ inv[p].pc = "returned"
            /\ inv[p].snap.status = "failed"
            /\ inv[p].snap.e2eResult = "failed"
            /\ inv[p].snap.error = <<"E2E tests failed">>
            /\ H(p)[Len(H(p))] = [op |-> "return", ph |-> "failed", i |-> 0, ok |-> TRUE,
                                  rec |-> inv[p].ret]
            /\ ~Emitted(p, "deployment_completed")
            /\ eventEmitter =>
                  \E a, b \in DOMAIN events :
                      /\ a < b
                      /\ events[a].by = p /\ events[a].type = "e2e_completed"
                      /\ events[b].by = p /\ events[b].type = "deployment_failed"
                      /\ \A j \in DOMAIN events :
                            (events[j].by = p /\ events[j].type = "deployment_failed") => j = b

C12_Witness ==
    \E p \in Calls :
        /\ E2ECommandFailed(p)
        /\ eventEmitter
        /\ inv[p].cfg.e2eTests = "cmd"

\* the number of events of the given type that invocation p emitted
CountBy(p, type) ==
    Cardinality({j \in DOMAIN events : events[j].by = p /\ events[j].type = type})

\* C13: successful completion.  A run that is not cancelled, in which every step
\* succeeds or fails with continueOnError, the health probe (if configured)
\* returns true and the E2E run (if configured) passes, returns a
\* DeploymentResult with status success, finishedAt set and error unset, and
\* emits exactly one deployment_completed event and no deployment_failed event.
C13_SuccessfulCompletion ==
    \A p \in Calls :
        (inv[p].pc = "returned" /\ ~HasOtherCause(p) /\ p \notin cancelledRuns) =>
            /\ inv[p].snap.status = "success"
            /\ inv[p].snap.finishedAt
            /\ inv[p].snap.error = NoError
            /\ eventEmitter => /\ CountBy(p, "deployment_completed") = 1
                               /\ CountBy(p, "deployment_failed") = 0

\* C14: abort handling.  Whenever a phase of p's run aborts (a step fails without
\* continueOnError, the health probe fails, the E2E run fails, or the
\* orchestration raises an unexpected exception), the run returns a
\* DeploymentResult with status failed, finishedAt set and error equal to the
\* message of the error that triggered the abort, and the run emits exactly one
\* deployment_failed event, its last event, when an emitter is attached.
AbortMessages(p) ==
    {<<"TypeError">> : x \in {y \in {1} : inv[p].pc \notin {"loading", "threw"}
                                            /\ ~inv[p].cfg.valid}}
    \cup {<<IF H(p)[k].ph = "build" THEN "Build step failed" ELSE "Deploy step failed",
            StepOf(inv[p].cfg, H(p)[k].ph, H(p)[k].i).name>> :
              k \in {j \in DOMAIN H(p) : IsFatal(p, H(p)[j])}}
    \cup {<<"Health check failed">> :
              k \in {j \in DOMAIN H(p) : H(p)[j].op = "probed" /\ H(p)[j].ph = "health"
                                          /\ ~H(p)[j].ok}}
    \cup {<<"E2E tests failed">> :
              k \in {j \in DOMAIN H(p) : H(p)[j].op = "e2eResult" /\ ~H(p)[j].ok}}

C15_CancelStopsTheRun ==
    [][/\ (isDeploymentRunning /\ inv' = inv /\ ops' = ops + 1) =>
             /\ cur' = cur
             /\ dep' = [dep EXCEPT ![cur].status = "failed", ![cur].finishedAt = TRUE,
                                   ![cur].error = <<"Deployment cancelled by user">>]
             /\ events' = IF eventEmitter
                           THEN Append(events, [type |-> "deployment_failed",
                                                deploymentId |-> dep[cur].id,
                                                stepName |-> NoStep, by |-> 0])
                           ELSE events
             /\ ~isDeploymentRunning'
       /\ (/\ cur # 0 /\ cur' = cur
           /\ dep[cur].error = <<"Deployment cancelled by user">>
           /\ ~isDeploymentRunning) => ~isDeploymentRunning']_vars

\* C16: idempotent cancel.  cancelDeployment() called when no run is in flight
\* (there is no current DeploymentResult, or its status is success, failed or
\* idle) emits no event and leaves the current reference and every field of
\* every DeploymentResult unchanged; calling it twice in a row has the same
\* effect as calling it once.
C16_IdempotentCancel ==
    /\ ~isDeploymentRunning => cancelCall(Shared) = Shared
    /\ cancelCall(cancelCall(Shared)) = cancelCall(Shared)

C16_Witness ==
    /\ eventEmitter
    /\ cur # 0 /\ dep[cur].status = "success"
    /\ \E d \in DOMAIN dep : dep[d].error = <<"Deployment cancelled by user">>

\* C17: every build_step_completed (deploy_step_completed) event for a step name
\* is preceded, within the same deployment id, by a build_step_started
\* (deploy_step_started) event for that step name with no other step event of
\* that id in between, and every started event is eventually followed by its
\* completed event.  The formula is the first half, the safety half.
IsStepEvent(e) ==
    e.type \in {"build_step_started", "build_step_completed",
                "deploy_step_started", "deploy_step_completed"}

StartedTypeOf(type) ==
    IF type = "build_step_completed" THEN "build_step_started" ELSE "deploy_step_started"

C17_StepEventsPaired ==
    \A k \in DOMAIN events :
        events[k].type \in {"build_step_completed", "deploy_step_completed"} =>
            \E j \in 1..(k - 1) :
                /\ events[j].type = StartedTypeOf(events[k].type)
                /\ events[j].deploymentId = events[k].deploymentId
                /\ events[j].stepName = events[k].stepName
                /\ \A m \in (j + 1)..(k - 1) :
                      ~(IsStepEvent(events[m])
                        /\ events[m].deploymentId = events[k].deploymentId)

\* the events invocation p emitted, in order, as <<type, stepName>> pairs
EventsBy(p) ==
    LET sel == SelectSeq(events, LAMBDA e : e.by = p)
    IN  [n \in DOMAIN sel |-> <<sel[n].type, sel[n].stepName>>]

\* the event that goes with entry e of p's history, as a sequence of zero or one
\* <<type, stepName>> pairs; onDeploying is what entering the deploy phase emits
EventOf(p, e, onDeploying) ==
    CASE e.op = "create" -> << <<"deployment_started", NoStep>> >>
      [] e.op = "start"  ->
            << <<IF e.ph = "build" THEN "build_step_started" ELSE "deploy_step_started",
                 StepOf(inv[p].cfg, e.ph, e.i).name>> >>
      [] e.op = "result" ->
            << <<IF e.ph = "build" THEN "build_step_completed" ELSE "deploy_step_completed",
                 StepOf(inv[p].cfg, e.ph, e.i).name>> >>
      [] e.op = "status" /\ e.ph = "deploying" -> onDeploying
      [] e.op = "probe" /\ e.ph = "health" -> << <<"health_check_started", NoStep>> >>
      [] e.op = "probed" /\ e.ph = "health" -> << <<"health_check_completed", NoStep>> >>
      [] e.op = "status" /\ e.ph = "running_tests" -> << <<"e2e_started", NoStep>> >>
      [] e.op = "e2eResult" -> << <<"e2e_completed", NoStep>> >>
      [] e.op = "return" ->
            << <<IF e.ph = "success" THEN "deployment_completed" ELSE "deployment_failed",
                 NoStep>> >>
      [] OTHER -> <<>>

\* the events that go with the first n entries of p's history
RECURSIVE ExpectedEvents(_, _, _)
ExpectedEvents(p, n, onDeploying) ==
    IF n = 0 THEN <<>>
    ELSE ExpectedEvents(p, n - 1, onDeploying) \o EventOf(p, H(p)[n], onDeploying)

\* C18 (as claimed): for an uncancelled run, the emitted event sequence mirrors
\* execution order exactly: deployment_started first, then a started/completed
\* pair per executed build step in configuration order, then the pairs for the
\* deploy steps, then health_check_started/health_check_completed if a health
\* check is configured, then e2e_started/e2e_completed if E2E is configured, and
\* last the single terminal event: entering the deploy phase emits nothing.
C18_EventsMirrorExecution ==
    \A p \in Calls :
        (eventEmitter /\ p \notin cancelledRuns) =>
            EventsBy(p) = ExpectedEvents(p, Len(H(p)), <<>>)

\* C18 (amended): the events a run emits mirror its execution order exactly:
\* deployment_started when the DeploymentResult is created, a started/completed
\* pair per executed build step in execution order, a second deployment_started
\* when the deploy phase is entered, the pairs for the deploy steps, then
\* health_check_started/health_check_completed if the health phase is reached,
\* then e2e_started/e2e_completed if the E2E phase is reached, and last the
\* single terminal event of the run.
C18_EventsMirrorExecutionAmended ==
    \A p \in Calls :
        eventEmitter =>
            /\ EventsBy(p) = ExpectedEvents(p, Len(H(p)), << <<"deployment_started", NoStep>> >>)
            /\ \A n \in DOMAIN EventsBy(p) :
                  /\ n = 1 => EventsBy(p)[n][1] = "deployment_started"
                  /\ EventsBy(p)[n][1] \in {"deployment_completed", "deployment_failed"}
                        => n = Len(EventsBy(p)) /\ inv[p].pc = "returned"
            /\ (inv[p].pc = "returned" /\ EventsBy(p) # <<>>) =>
                  EventsBy(p)[Len(EventsBy(p))][1]
                      \in {"deployment_completed", "deployment_failed"}

C18_Witness ==
    \E p \in Calls :
        /\ eventEmitter
        /\ p \notin cancelledRuns
        /\ inv[p].pc = "returned"
        /\ inv[p].snap.status = "success"
        /\ EventsBy(p) = << <<"deployment_started", NoStep>>,
                            <<"build_step_started", <<"build", 1>> >>,
                            <<"build_step_completed", <<"build", 1>> >>,
                            <<"deployment_started", NoStep>>,
                            <<"deploy_step_started", <<"deploy", 1>> >>,
                            <<"deploy_step_completed", <<"deploy", 1>> >>,
                            <<"health_check_started", NoStep>>,
                            <<"health_check_completed", NoStep>>,
                            <<"deployment_completed", NoStep>> >>

\* what invocation p does from segment s when the await it is suspended at
\* resolves with outcome x (the outcome of a command or of a probe)
Resume(s, p, x) ==
    CASE inv[p].pc = "loading" -> afterConfig(s, p, configFile)
      [] inv[p].pc \in {"build", "deploy"} ->
            afterStep(s, p, inv[p].cfg, inv[p].pc, inv[p].i, x)
      [] inv[p].pc = "health"  -> afterHealth(s, p, inv[p].cfg, x)
      [] inv[p].pc = "e2eWait" -> afterE2EWait(s, p, x)
      [] inv[p].pc = "e2eCmd"  -> afterE2E(s, p, IF x THEN "passed" ELSE "failed")
      [] OTHER -> s

\* segment s with or without an emitter attached
WithEmitter(s, attached) == [s EXCEPT !.em = attached]

\* segments a and b agree on everything but the published events
SameButEvents(a, b) ==
    [a EXCEPT !.ev = <<>>, !.em = FALSE] = [b EXCEPT !.ev = <<>>, !.em = FALSE]

\* C19: event emission is a pure side channel.  From every reachable state,
\* every continuation of every deploy() invocation, and cancelDeployment(), makes
\* exactly the same status transitions, result lists, final status and error and
\* return value without an emitter as with one, and without an emitter it
\* publishes nothing; nothing is ever published unless an emitter is attached
\* and there is a current deployment.
C19_EventsAreSideChannel ==
    /\ ~eventEmitter => events = <<>>
    /\ events # <<>> => cur # 0
    /\ \A k \in DOMAIN events : events[k].deploymentId \in DOMAIN dep
    /\ \A p \in {q \in Calls : InFlight(q)} : \A x \in BOOLEAN :
          LET loud  == Resume(WithEmitter(Segment(p), TRUE), p, x)
              quiet == Resume(WithEmitter(Segment(p), FALSE), p, x)
          IN  SameButEvents(loud, quiet) /\ quiet.ev = events
    /\ LET loud  == cancelCall(WithEmitter(Shared, TRUE))
           quiet == cancelCall(WithEmitter(Shared, FALSE))
       IN  SameButEvents(loud, quiet) /\ quiet.ev = events

C19_Witness ==
    /\ ~eventEmitter
    /\ \E p \in Calls :
          /\ inv[p].pc = "returned"
          /\ inv[p].snap.buildResults # <<>>
          /\ inv[p].snap.e2eResult = "passed"
    /\ \E p \in Calls : InFlight(p) /\ inv[p].pc # "loading"

\* results is the list of results of a prefix of steps: one result per step, in
\* the steps' order, under the steps' names
ResultsOfPrefix(results, steps) ==
    /\ Len(results) <= Len(steps)
    /\ \A n \in DOMAIN results : results[n].stepName = steps[n].name

\* list a is an initial part of list b
IsPrefix(a, b) ==
    Len(a) <= Len(b) /\ \A n \in DOMAIN a : b[n] = a[n]

\* C20: in every reachable state the buildResults of every DeploymentResult is
\* the list of results of a prefix of the configured buildSteps (same names,
\* same order, one result per executed step) and its deployResults likewise for
\* the deploySteps; results once recorded stay in place unchanged, also after a
\* failure.
C20_ResultsArePrefix ==
    [][\A id \in DOMAIN dep' :
          /\ ResultsOfPrefix(dep'[id].buildResults, configFile.buildSteps)
          /\ ResultsOfPrefix(dep'[id].deployResults, configFile.deploySteps)
          /\ id \in DOMAIN dep =>
                /\ IsPrefix(dep[id].buildResults, dep'[id].buildResults)
                /\ IsPrefix(dep[id].deployResults, dep'[id].deployResults)]_vars

\* ======================================================== the step executor
\* executeCommand(command, workingDirectory, env, timeoutMs): spawn the shell,
\* collect its output, arm a timer, and resolve the returned promise from the
\* 'close' handler, the 'error' handler or the timer's callback.

\* chunks of output one call may deliver
MaxData == 2

\* DEFAULT_DEPLOYMENT_CONFIG
DefaultConfig ==
    [valid |-> TRUE, buildSteps |-> <<>>, deploySteps |-> <<>>,
     healthCheckUrl |-> FALSE, e2eTests |-> "none"]

\* the pipeline when nothing has been asked of it
PipelineIdle ==
    /\ configFile = DefaultConfig
    /\ eventEmitter = FALSE
    /\ dep = <<>>
    /\ cur = 0
    /\ events = <<>>
    /\ inv = <<>>
    /\ cancelledRuns = {}
    /\ ops = 0

\* a promise settles once: resolve() on a settled promise does nothing
resolve(pr, value) ==
    IF pr.settled THEN pr ELSE [settled |-> TRUE, value |-> value]

\* clearTimeout(timeout)
clearTimeout(tm) == IF tm = "armed" THEN "cleared" ELSE tm

\* stdout + (stderr ? `\n[stderr]\n${stderr}` : '')
closeOutput(out, err) ==
    IF err # <<>> THEN out \o <<"[stderr]">> \o err ELSE out

\* a 'close' handler that reports success whatever the exit code
onCloseReportsSuccess(code, out, err) ==
    [success |-> TRUE, output |-> closeOutput(out, err), error |-> NoError]

\* what the 'close' handler resolves with; code is <<"code", n>> or, for a
\* subprocess a signal ended, <<"null">>
onClose(code, out, err) ==
    [success |-> code = <<"code", 0>>,
     output  |-> closeOutput(out, err),
     error   |-> IF code # <<"code", 0>> THEN <<"Exit code">> \o code ELSE NoError]

\* what the 'error' handler resolves with
onError(out) ==
    [success |-> FALSE, output |-> out, error |-> <<"spawn error">>]

\* what the timer's callback resolves with
onTimeout(out) ==
    [success |-> FALSE, output |-> out, error |-> <<"Command timed out">>]

\* executeCommand is called: spawn() returns a child that runs, or one that
\* could not be spawned and will emit 'error'; the timer is armed
executeCommand ==
    /\ child.state = "none"
    /\ \E st \in {"running", "failed"}, obeys \in BOOLEAN :
          child' = [NoChild EXCEPT !.state = st, !.obeysTerm = obeys]
    /\ timer' = "armed"
    /\ UNCHANGED <<promise, stdout, stderr, handled>>
    /\ UNCHANGED outsideExec

\* the subprocess writes to its stdout or stderr
ChildData ==
    /\ child.state \in {"running", "exited"} /\ ~child.closed
    /\ Len(stdout) + Len(stderr) < MaxData
    /\ \/ stdout' = Append(stdout, "out") /\ UNCHANGED stderr
       \/ stderr' = Append(stderr, "err") /\ UNCHANGED stdout
    /\ UNCHANGED <<child, timer, promise, handled>>
    /\ UNCHANGED outsideExec

\* the subprocess ends: with an exit code, or by a signal (SIGTERM from the
\* timer's callback when it does not ignore it, or any other signal)
ChildExit ==
    /\ child.state = "running"
    /\ \E code \in {<<"code", 0>>, <<"code", 1>>, <<"null">>} :
          child' = [child EXCEPT !.state = "exited", !.code = code]
    /\ UNCHANGED <<timer, promise, stdout, stderr, handled>>
    /\ UNCHANGED outsideExec

\* 'close' is emitted: after the subprocess ended and, possibly, after the
\* 'error' of a failed spawn
ChildClose ==
    /\ ~child.closed
    /\ \/ child.state = "exited"
       \/ child.state = "failed" /\ child.errored
    /\ LET code == IF child.state = "exited" THEN child.code ELSE <<"code", 1>>
       IN  /\ promise' = resolve(promise, onClose(code, stdout, stderr))
           /\ handled' = Append(handled, [event |-> "close", code |-> code,
                                          out |-> stdout, err |-> stderr])
    /\ timer' = clearTimeout(timer)
    /\ child' = [child EXCEPT !.closed = TRUE]
    /\ UNCHANGED <<stdout, stderr>>
    /\ UNCHANGED outsideExec

\* 'error' is emitted for a subprocess that could not be spawned
ChildError ==
    /\ child.state = "failed" /\ ~child.errored
    /\ promise' = resolve(promise, onError(stdout))
    /\ handled' = Append(handled, [event |-> "error", code |-> <<>>,
                                   out |-> stdout, err |-> stderr])
    /\ timer' = clearTimeout(timer)
    /\ child' = [child EXCEPT !.errored = TRUE]
    /\ UNCHANGED <<stdout, stderr>>
    /\ UNCHANGED outsideExec

\* the timer fires: child.kill('SIGTERM'), then resolve
TimerFire ==
    /\ timer = "armed"
    /\ child.state \in {"running", "exited"}
    /\ child' = [child EXCEPT !.sigterm = (child.state = "running")]
    /\ promise' = resolve(promise, onTimeout(stdout))
    /\ handled' = Append(handled, [event |-> "timeout", code |-> <<>>,
                                   out |-> stdout, err |-> stderr])
    /\ timer' = "fired"
    /\ UNCHANGED <<stdout, stderr>>
    /\ UNCHANGED outsideExec

InitExec == PipelineIdle /\ ComponentsIdle

NextExec ==
    \/ executeCommand
    \/ ChildData
    \/ ChildExit
    \/ ChildClose
    \/ ChildError
    \/ TimerFire

SpecExec == InitExec /\ [][NextExec]_vars

\* C21: step timeout.  When the timer fires the executor sends the subprocess
\* SIGTERM and the result is a failure with the timeout error; once the
\* executor's promise is resolved the subprocess is not running, unless
\* SIGTERM has been sent to a subprocess that ends on it.
C21_NoProcessLeftRunning ==
    /\ \A k \in DOMAIN handled :
          (handled[k].event = "timeout" /\ k = 1) =>
              promise.value = [success |-> FALSE, output |-> handled[k].out,
                               error |-> <<"Command timed out">>]
    /\ promise.settled =>
          \/ child.state # "running"
          \/ child.sigterm /\ child.obeysTerm

\* C22: the executor resolves exactly once, with the result of the first of the
\* 'close' event, the 'error' event and the timeout: close with code 0 is a
\* success, close with another code a failure "Exit code: <code>", a spawn
\* error a failure with the error's message, the timeout a failure with the
\* timeout message; the promise is pending before the first of them, and a
\* later event does not change the result.
ResultOfFirst(e) ==
    CASE e.event = "close" /\ e.code = <<"code", 0>> ->
            [success |-> TRUE, output |-> closeOutput(e.out, e.err), error |-> NoError]
      [] e.event = "close" /\ e.code # <<"code", 0>> ->
            [success |-> FALSE, output |-> closeOutput(e.out, e.err),
             error |-> <<"Exit code">> \o e.code]
      [] e.event = "error" ->
            [success |-> FALSE, output |-> e.out, error |-> <<"spawn error">>]
      [] e.event = "timeout" ->
            [success |-> FALSE, output |-> e.out, error |-> <<"Command timed out">>]

C22_ResolvesOnceByFirstEvent ==
    [][/\ promise.settled => promise' = promise
       /\ promise'.settled <=> handled' # <<>>
       /\ handled' # <<>> => promise'.value = ResultOfFirst(handled'[1])]_vars

C22_Witness ==
    /\ Len(handled) = 2
    /\ handled[1].event = "timeout" /\ handled[1].out # <<>>
    /\ handled[2].event = "close" /\ handled[2].code = <<"code", 1>>
    /\ promise.settled

\* ========================================================= the health probe
\* waitForUrl(url, timeoutMs, intervalMs): GET the url until a response with a
\* status below 500 arrives or timeoutMs have passed since the call.

\* the last instant of the clock
MaxClock == 4
\* the largest timeoutMs a call is made with
MaxTimeout == 2
\* the largest intervalMs a call is made with
MaxInterval == 2

\* what a fetch settles with: a response with a status, or a rejection
Responses ==
    {[kind |-> "response", status |-> st] : st \in {200, 304, 404, 500, 503}}
    \cup {[kind |-> "error", status |-> 0]}

\* a test that takes only a 2xx response as reachable
reachableOkOnly(r) == r.kind = "response" /\ r.status \in 200..299

\* response.ok || response.status < 500, for a fetch that was fulfilled
reachable(r) ==
    r.kind = "response" /\ (r.status \in 200..299 \/ r.status < 500)

\* the test of the while loop, then the fetch or the return
loopFrom(w, now) ==
    IF now - w.startTime < w.timeoutMs
    THEN [w EXCEPT !.pc = "fetching", !.since = now]
    ELSE [w EXCEPT !.pc = "returned", !.ret = FALSE]

\* waitForUrl is called
waitForUrl ==
    /\ wait.pc = "idle"
    /\ \E tmo \in 0..MaxTimeout, ivl \in 1..MaxInterval :
          wait' = loopFrom([NoWait EXCEPT !.timeoutMs = tmo, !.intervalMs = ivl,
                                          !.startTime = clock], clock)
    /\ UNCHANGED <<clock, attempts>>
    /\ UNCHANGED outsideWait

\* time passes
Tick ==
    /\ clock < MaxClock
    /\ clock' = clock + 1
    /\ UNCHANGED <<wait, attempts>>
    /\ UNCHANGED outsideWait

\* the fetch settles: return true, or (after a 5xx response or in the catch
\* block) start the sleep
FetchDone ==
    /\ wait.pc = "fetching"
    /\ \E r \in Responses :
          /\ attempts' = Append(attempts, [started |-> wait.since, settled |-> clock,
                                           response |-> r])
          /\ wait' = IF reachable(r)
                     THEN [wait EXCEPT !.pc = "returned", !.ret = TRUE]
                     ELSE [wait EXCEPT !.pc = "sleeping", !.since = clock]
    /\ UNCHANGED clock
    /\ UNCHANGED outsideWait

\* the setTimeout(resolve, intervalMs) fires, not before intervalMs have passed
SleepDone ==
    /\ wait.pc = "sleeping"
    /\ clock >= wait.since + wait.intervalMs
    /\ wait' = loopFrom(wait, clock)
    /\ UNCHANGED <<clock, attempts>>
    /\ UNCHANGED outsideWait

InitWait == PipelineIdle /\ ComponentsIdle

NextWait ==
    \/ waitForUrl
    \/ Tick
    \/ FetchDone
    \/ SleepDone

SpecWait == InitWait /\ [][NextWait]_vars

\* C23: health probe result.  waitForUrl returns true if and only if a GET
\* attempt received a response with a status below 500 (2xx, 3xx and 4xx all
\* count), and every attempt starts before the deadline; after a response with
\* status 500 or more, or a connection error, the next attempt starts no sooner
\* than intervalMs later; it returns false only once the deadline has passed
\* with no qualifying response; it has no other way to end.
Qualifies(a) == a.response.kind = "response" /\ a.response.status < 500

C23_ProbeResult ==
    /\ wait.pc \in {"idle", "fetching", "sleeping", "returned"}
    /\ \A k \in DOMAIN attempts :
          /\ attempts[k].started - wait.startTime < wait.timeoutMs
          /\ Qualifies(attempts[k]) => (k = Len(attempts) /\ wait.pc = "returned" /\ wait.ret)
          /\ k > 1 => /\ ~Qualifies(attempts[k-1])
                      /\ attempts[k].started >= attempts[k-1].settled + wait.intervalMs
          /\ (~Qualifies(attempts[k]) /\ k = Len(attempts)) =>
                \/ wait.pc \in {"sleeping", "fetching"}
                \/ wait.pc = "returned" /\ ~wait.ret
    /\ wait.pc = "returned" =>
          /\ wait.ret <=> \E k \in DOMAIN attempts : Qualifies(attempts[k])
          /\ ~wait.ret => clock - wait.startTime >= wait.timeoutMs

C23_Witness ==
    /\ wait.pc = "returned" /\ wait.ret
    /\ Len(attempts) = 2
    /\ attempts[1].response.kind = "error"
    /\ attempts[2].response.status = 404
    /\ attempts[2].settled - wait.startTime >= wait.timeoutMs

\* ================================================== the configuration store
\* saveDeploymentConfig, getDeploymentConfig and hasDeploymentConfig over the
\* file .automaker/deployment.json of one project.  A file name refers to an
\* inode; writeFile opens (and truncates) the file a name refers to and then
\* writes through the descriptor it got, rename makes the target name refer to
\* the inode of the temporary name.

\* saveDeploymentConfig() calls in one behaviour
MaxSaves == 2
\* the last millisecond Date.now() reaches
MaxStamp == 2

\* the value undefined of a property that is present
Undefined == "undefined"

RequiredKeys == {"version", "autoDeployOnComplete", "buildSteps", "deploySteps"}

OptionalKeys == {"healthCheckUrl"}

ConfigKeys == RequiredKeys \cup OptionalKeys

\* DEFAULT_DEPLOYMENT_CONFIG
DEFAULT_DEPLOYMENT_CONFIG ==
    [version |-> 1, autoDeployOnComplete |-> FALSE, buildSteps |-> <<>>,
     deploySteps |-> <<>>]

\* the object o with the property k set to v
WithProperty(o, k, v) ==
    [x \in DOMAIN o \cup {k} |-> IF x = k THEN v ELSE o[x]]

\* DeploymentConfig objects a caller saves: one with empty step lists and no
\* optional field, and two with a build step whose optional healthCheckUrl is
\* present as undefined or as a string
EmptyStepsConfig ==
    [version |-> 2, autoDeployOnComplete |-> TRUE, buildSteps |-> <<>>,
     deploySteps |-> <<>>]

OneStepConfig ==
    [version |-> 1, autoDeployOnComplete |-> FALSE, buildSteps |-> <<"build">>,
     deploySteps |-> <<>>]

StoreConfigs ==
    {EmptyStepsConfig}
        \cup {WithProperty(OneStepConfig, "healthCheckUrl", u) :
                 u \in {Undefined, "http://localhost"}}

\* o.k evaluates to something other than undefined
Defined(o, k) ==
    /\ k \in DOMAIN o
    /\ k \in OptionalKeys => o[k] # Undefined

\* deep equality of two configuration objects as their reader sees them: each
\* property reads the same in both
DeepEqual(a, b) ==
    \A k \in ConfigKeys :
        /\ Defined(a, k) <=> Defined(b, k)
        /\ Defined(a, k) => a[k] = b[k]

\* a spread in which the properties of the first object win
SpreadFirstWins(a, b) ==
    [k \in DOMAIN a \cup DOMAIN b |-> IF k \in DOMAIN a THEN a[k] ELSE b[k]]

\* { ...a, ...b }
Spread(a, b) ==
    [k \in DOMAIN a \cup DOMAIN b |-> IF k \in DOMAIN b THEN b[k] ELSE a[k]]

\* a text on disk: the JSON text of an object, or something JSON.parse rejects
\* (an empty file, a prefix of a text, a mix of two texts)
Broken == [body |-> <<>>, complete |-> FALSE]

\* JSON.stringify(data, null, 2): a property whose value is undefined is left out
stringify(o) ==
    [body |-> [k \in {x \in DOMAIN o : Defined(o, x)} |-> o[k]], complete |-> TRUE]

\* JSON.parse(content)
parse(text) ==
    IF text.complete THEN [threw |-> FALSE, value |-> text.body]
    ELSE [threw |-> TRUE, value |-> <<>>]

\* a file: its text and whether this process may read it
Inode(text, readable) == [text |-> text, readable |-> readable]

\* secureFs.readFile(filePath, 'utf-8')
readFile(i) ==
    IF i = 0 THEN [code |-> "ENOENT", text |-> Broken]
    ELSE IF ~inodes[i].readable THEN [code |-> "EACCES", text |-> Broken]
    ELSE [code |-> "ok", text |-> inodes[i].text]

\* a readJsonFile whose catch block passes on every error but ENOENT
readJsonFileRethrows(i, defaultValue) ==
    LET r == readFile(i) IN
    IF r.code = "ENOENT" THEN [threw |-> FALSE, value |-> defaultValue]
    ELSE IF r.code # "ok" \/ parse(r.text).threw
         THEN [threw |-> TRUE, value |-> <<>>]
    ELSE [threw |-> FALSE, value |-> parse(r.text).value]

\* readJsonFile(filePath, defaultValue)
readJsonFile(i, defaultValue) ==
    LET r == readFile(i) IN
    IF r.code = "ENOENT" THEN [threw |-> FALSE, value |-> defaultValue]
    ELSE IF r.code # "ok" \/ parse(r.text).threw
         THEN [threw |-> FALSE, value |-> defaultValue]
    ELSE [threw |-> FALSE, value |-> parse(r.text).value]

\* getDeploymentConfig(projectPath)
getDeploymentConfig(i) ==
    LET config == readJsonFile(i, DEFAULT_DEPLOYMENT_CONFIG) IN
    IF config.threw THEN config
    ELSE [config EXCEPT !.value = Spread(DEFAULT_DEPLOYMENT_CONFIG, config.value)]

\* hasDeploymentConfig(projectPath): secureFs.access succeeds
hasDeploymentConfig(i) == i # 0

\* what kind of file a reader finds under the target name
FileKind(i) ==
    IF i = 0 THEN "absent"
    ELSE IF ~inodes[i].readable THEN "unreadable"
    ELSE IF ~inodes[i].text.complete THEN "broken"
    ELSE "json"

\* the inode the temporary name with this stamp refers to
TempOf(stamp) == IF stamp \in DOMAIN names.temp THEN names.temp[stamp] ELSE 0

\* a frame of saveDeploymentConfig; fault tells that the file system refused
\* one of its calls for a reason of its own (no space, no permission, ...)
SaveFrame(cfg, alone, resave) ==
    [cfg |-> cfg, pc |-> "ensureDir", stamp |-> 0, fd |-> 0, alone |-> alone,
     resave |-> resave, cleaned |-> FALSE, fault |-> FALSE]

Running(s) == saves[s].pc \in {"ensureDir", "open", "write", "rename", "cleanup"}

\* saveDeploymentConfig(projectPath, config) is called, with a configuration
\* of the caller or with the value getDeploymentConfig returned last
saveDeploymentConfig ==
    /\ Len(saves) < MaxSaves
    /\ \E resave \in {r \in BOOLEAN : r => got.valid /\ ~got.threw} :
       \E cfg \in IF resave THEN {got.value} ELSE StoreConfigs :
          saves' = Append([s \in DOMAIN saves |-> [saves[s] EXCEPT !.alone = ~Running(s) /\ @]],
                          SaveFrame(cfg, \A s \in DOMAIN saves : ~Running(s), resave))
    /\ settled' = NoSettled
    /\ UNCHANGED <<storeNow, names, inodes, got>>
    /\ UNCHANGED outsideStore

\* a millisecond passes
StoreTick ==
    /\ storeNow < MaxStamp
    /\ storeNow' = storeNow + 1
    /\ UNCHANGED <<names, inodes, saves, settled, got>>
    /\ UNCHANGED outsideStore

\* ensureAutomakerDir settles; when it resolves atomicWriteJson begins and
\* names its temporary file after Date.now()
EnsureDirDone(s) ==
    /\ saves[s].pc = "ensureDir"
    /\ \/ saves' = [saves EXCEPT ![s].pc = "open", ![s].stamp = storeNow]
       \/ saves' = [saves EXCEPT ![s].pc = "raised", ![s].fault = TRUE]
    /\ UNCHANGED <<storeNow, names, inodes, settled, got>>
    /\ UNCHANGED outsideStore

\* writeFile opens the temporary file: an existing file is truncated, a
\* missing one is created; or the open fails
OpenTemp(s) ==
    /\ saves[s].pc = "open"
    /\ LET i == TempOf(saves[s].stamp) IN
       \/ /\ i # 0
          /\ inodes' = [inodes EXCEPT ![i].text = Broken]
          /\ saves' = [saves EXCEPT ![s].pc = "write", ![s].fd = i]
          /\ UNCHANGED names
       \/ /\ i = 0
          /\ inodes' = Append(inodes, Inode(Broken, TRUE))
          /\ names' = [names EXCEPT !.temp = WithProperty(@, saves[s].stamp, Len(inodes) + 1)]
          /\ saves' = [saves EXCEPT ![s].pc = "write", ![s].fd = Len(inodes) + 1]
       \/ /\ saves' = [saves EXCEPT ![s].pc = "cleanup", ![s].fault = TRUE]
          /\ UNCHANGED <<names, inodes>>
    /\ UNCHANGED <<storeNow, settled, got>>
    /\ UNCHANGED outsideStore

\* writeFile writes the text through its descriptor and closes it.  Over the
\* text another writer put into the same file the outcome may be a mix of
\* the two; a write that fails leaves a prefix
WriteTemp(s) ==
    /\ saves[s].pc = "write"
    /\ LET i == saves[s].fd
           mine == stringify(saves[s].cfg) IN
       \/ /\ inodes' = [inodes EXCEPT ![i].text = mine]
          /\ saves' = [saves EXCEPT ![s].pc = "rename"]
       \/ /\ inodes[i].text.complete /\ inodes[i].text # mine
          /\ inodes' = [inodes EXCEPT ![i].text = Broken]
          /\ saves' = [saves EXCEPT ![s].pc = "rename"]
       \/ /\ inodes' = [inodes EXCEPT ![i].text = Broken]
          /\ saves' = [saves EXCEPT ![s].pc = "cleanup", ![s].fault = TRUE]
    /\ UNCHANGED <<storeNow, names, settled, got>>
    /\ UNCHANGED outsideStore

\* rename(tempPath, filePath): the target name takes the inode of the
\* temporary name in one step; it fails when the temporary name is gone, and
\* may fail for a reason of the file system
RenameTemp(s) ==
    /\ saves[s].pc = "rename"
    /\ LET i == TempOf(saves[s].stamp) IN
       \/ /\ i # 0
          /\ names' = [target |-> i, temp |-> WithProperty(names.temp, saves[s].stamp, 0)]
          /\ saves' = [saves EXCEPT ![s].pc = "returned"]
          /\ settled' = IF saves[s].alone
                        THEN [valid |-> TRUE, cfg |-> saves[s].cfg, resave |-> saves[s].resave]
                        ELSE NoSettled
       \/ /\ saves' = [saves EXCEPT ![s].pc = "cleanup", ![s].fault = (i # 0)]
          /\ UNCHANGED <<names, settled>>
    /\ UNCHANGED <<storeNow, inodes, got>>
    /\ UNCHANGED outsideStore

\* the catch block: unlink(tempPath), whose failure is ignored, then rethrow
Cleanup(s) ==
    /\ saves[s].pc = "cleanup"
    /\ \/ names' = [names EXCEPT !.temp = WithProperty(@, saves[s].stamp, 0)]
       \/ UNCHANGED names
    /\ saves' = [saves EXCEPT ![s].pc = "raised", ![s].cleaned = TRUE]
    /\ UNCHANGED <<storeNow, inodes, settled, got>>
    /\ UNCHANGED outsideStore

\* the process dies: no frame takes another step, the disk stays as it is
Crash ==
    /\ \E s \in DOMAIN saves : Running(s)
    /\ saves' = [s \in DOMAIN saves |->
                    IF Running(s) THEN [saves[s] EXCEPT !.pc = "crashed"] ELSE saves[s]]
    /\ UNCHANGED <<storeNow, names, inodes, settled, got>>
    /\ UNCHANGED outsideStore

\* a reader calls getDeploymentConfig and hasDeploymentConfig
ReadConfig ==
    /\ LET r == getDeploymentConfig(names.target) IN
       got' = [valid |-> TRUE, threw |-> r.threw, value |-> r.value,
               has |-> hasDeploymentConfig(names.target),
               file |-> FileKind(names.target), settled |-> settled]
    /\ UNCHANGED <<storeNow, names, inodes, saves, settled>>
    /\ UNCHANGED outsideStore

\* the project directory before the server starts: no configuration file, one
\* the server may not read, one that is no JSON text, or a saved configuration
InitStore ==
    /\ PipelineIdle /\ ExecIdle /\ WaitIdle /\ RoutesIdle /\ ParseIdle /\ EmitterIdle
    /\ storeNow = 1
    /\ saves = <<>>
    /\ settled = NoSettled
    /\ got = NoGot
    /\ \/ names = NoNames /\ inodes = <<>>
       \/ /\ names = [NoNames EXCEPT !.target = 1]
          /\ \/ inodes = <<Inode(stringify(EmptyStepsConfig), FALSE)>>
             \/ inodes = <<Inode(Broken, TRUE)>>
             \/ \E c \in StoreConfigs : inodes = <<Inode(stringify(c), TRUE)>>

NextStore ==
    \/ saveDeploymentConfig
    \/ StoreTick
    \/ \E s \in DOMAIN saves : EnsureDirDone(s)
    \/ \E s \in DOMAIN saves : OpenTemp(s)
    \/ \E s \in DOMAIN saves : WriteTemp(s)
    \/ \E s \in DOMAIN saves : RenameTemp(s)
    \/ \E s \in DOMAIN saves : Cleanup(s)
    \/ Crash
    \/ ReadConfig

SpecStore == InitStore /\ [][NextStore]_vars

\* C24: configuration round trip.  A getDeploymentConfig that follows a
\* saveDeploymentConfig(cfg) which returned, with no other save called since
\* that save began, returns cfg merged over DEFAULT_DEPLOYMENT_CONFIG (cfg with
\* empty step lists and cfg without optional fields included); when cfg was
\* itself the value a getDeploymentConfig returned, the value read back equals it.
ReadsAsMerged(value, cfg, k) ==
    IF k \in DOMAIN cfg
    THEN /\ Defined(value, k) <=> Defined(cfg, k)
         /\ Defined(cfg, k) => value[k] = cfg[k]
    ELSE /\ Defined(value, k) <=> k \in RequiredKeys
         /\ k = "version" => value[k] = 1
         /\ k = "autoDeployOnComplete" => value[k] = FALSE
         /\ k \in {"buildSteps", "deploySteps"} => value[k] = <<>>

C24_ConfigRoundTrip ==
    (got.valid /\ got.settled.valid) =>
        /\ ~got.threw
        /\ \A k \in ConfigKeys : ReadsAsMerged(got.value, got.settled.cfg, k)
        /\ got.settled.resave => DeepEqual(got.value, got.settled.cfg)

C24_Witness ==
    /\ got.valid /\ got.settled.valid /\ got.settled.resave
    /\ got.value = OneStepConfig
    /\ \E s \in DOMAIN saves :
          /\ saves[s].pc = "returned" /\ ~saves[s].resave
          /\ saves[s].cfg = WithProperty(OneStepConfig, "healthCheckUrl", Undefined)

\* C25: getDeploymentConfig never throws.  With no configuration file it
\* returns the default (version 1, autoDeployOnComplete false, empty buildSteps
\* and deploySteps) and hasDeploymentConfig returns false; with a file that
\* cannot be read or parsed it returns that default too.
C25_GetConfigNeverThrows ==
    got.valid =>
        /\ ~got.threw
        /\ got.file \in {"absent", "unreadable", "broken"} =>
              got.value = [version |-> 1, autoDeployOnComplete |-> FALSE,
                           buildSteps |-> <<>>, deploySteps |-> <<>>]
        /\ got.file = "absent" => ~got.has

C25_Witness ==
    /\ got.valid /\ got.file = "broken" /\ got.has
    /\ got.value = DEFAULT_DEPLOYMENT_CONFIG

\* the target file is the one the project had before any save, untouched
TargetUntouched ==
    \/ names.target = 0
    \/ \A s \in DOMAIN saves : saves[s].fd # names.target

\* the target file holds the complete text of the configuration of save s
TargetHolds(s) ==
    /\ names.target # 0
    /\ inodes[names.target].text = stringify(saves[s].cfg)

\* C26: atomic save.  At every point of every save, a crash after any step
\* included, the target file is absent or as it was before, or holds the
\* complete configuration of a save: a reader never finds a partially written
\* target file.
C26_AtomicSave ==
    \/ TargetUntouched
    \/ \E s \in DOMAIN saves : TargetHolds(s)

\* C27: a save that fails re-raises the error, has tried to remove its
\* temporary file, and leaves the target file alone: the target is as it was
\* before, or holds the configuration of a save that returned.
C27_FailedSaveLeavesTarget ==
    \A s \in DOMAIN saves :
        saves[s].pc = "raised" =>
            /\ saves[s].stamp # 0 => saves[s].cleaned
            /\ \/ TargetUntouched
               \/ \E r \in DOMAIN saves : saves[r].pc = "returned" /\ TargetHolds(r)

\* C39: two saveDeploymentConfig calls for one project that overlap in time,
\* two that begin in the same millisecond and compute the same temporary file
\* name included, both return when the file system refuses none of their
\* calls, and the target file then holds the configuration of one of them in
\* full; a save that raised an error never leaves its own content in the
\* target file.
C39_OverlappingSavesBothReturn ==
    /\ (/\ saves # <<>>
        /\ \A s \in DOMAIN saves : saves[s].pc \in {"returned", "raised"}
        /\ \A s \in DOMAIN saves : ~saves[s].fault)
          => /\ \A s \in DOMAIN saves : saves[s].pc = "returned"
             /\ \E s \in DOMAIN saves : TargetHolds(s)
    /\ \A s \in DOMAIN saves :
          (saves[s].pc = "raised" /\ saves[s].fd # 0) => saves[s].fd # names.target

\* ======================================================= the control surface
\* POST /api/deployment/deploy: the handler awaits hasDeploymentConfig, then
\* tests isDeploymentRunning() and calls deploy() in one synchronous segment.

\* a frame of the handler:
\*   pc    "checking" while it awaits hasDeploymentConfig, then the response
\*         status it has decided on ("400", "409"), or "started" while it
\*         awaits the promise of deploy(), then the status it answers with
\*         ("200", "500")
\*   call  the deploy() invocation it made, 0 for none
\*   deploymentId  the id its success response carries, 0 before
Request(pcv) == [pc |-> pcv, call |-> 0, deploymentId |-> 0]

\* a POST /deploy request arrives; one without projectPath is answered at once
PostDeploy ==
    /\ Op
    /\ \E projectPath \in BOOLEAN :
          requests' = Append(requests, Request(IF projectPath THEN "checking" ELSE "400"))
    /\ UNCHANGED <<configFile, eventEmitter, dep, cur, events, inv, cancelledRuns>>
    /\ UNCHANGED <<execVars, waitVars, storeVars, parseVars, emitterVars>>

\* the handler after its await: 400 without a configuration, 409 when a
\* deployment is running, else deploy() is called
routeDecision(hasConfig, running) ==
    IF ~hasConfig THEN "400"
    ELSE IF running THEN "409"
    ELSE "started"

\* hasDeploymentConfig resolves for request r
AccessDone(r) ==
    /\ Op
    /\ requests[r].pc = "checking"
    /\ LET decision == routeDecision(hasDeploymentConfig(names.target), isDeploymentRunning) IN
       IF decision = "started"
       THEN /\ inv' = Append(inv, Frame(deployGuard))
            /\ requests' = [requests EXCEPT ![r].pc = "started", ![r].call = Len(inv) + 1]
       ELSE /\ requests' = [requests EXCEPT ![r].pc = decision]
            /\ UNCHANGED inv
    /\ UNCHANGED <<configFile, eventEmitter, dep, cur, events, cancelledRuns>>
    /\ UNCHANGED <<execVars, waitVars, storeVars, parseVars, emitterVars>>

\* the handler after `await result`: the promise of deploy() has settled, the
\* success response carries the id of the record deploy() returned; a rejected
\* promise is answered 500 by the catch block
Respond(r) ==
    /\ requests[r].pc = "started"
    /\ inv[requests[r].call].pc \in {"returned", "threw"}
    /\ requests' = [requests EXCEPT ![r] =
          IF inv[requests[r].call].pc = "returned"
          THEN [@ EXCEPT !.pc = "200", !.deploymentId = dep[inv[requests[r].call].ret].id]
          ELSE [@ EXCEPT !.pc = "500"]]
    /\ UNCHANGED <<configFile, eventEmitter, dep, cur, events, inv, cancelledRuns, ops>>
    /\ UNCHANGED <<execVars, waitVars, storeVars, parseVars, emitterVars>>

\* the server has wired its services; the project has a saved configuration
\* or none
InitRoutes ==
    /\ configFile \in Configs
    /\ eventEmitter = TRUE
    /\ dep = <<>>
    /\ cur = 0
    /\ events = <<>>
    /\ inv = <<>>
    /\ cancelledRuns = {}
    /\ ops = 0
    /\ ExecIdle /\ WaitIdle /\ RoutesIdle /\ ParseIdle /\ EmitterIdle
    /\ storeNow = 1 /\ saves = <<>> /\ settled = NoSettled /\ got = NoGot
    /\ \/ names = NoNames /\ inodes = <<>>
       \/ /\ names = [NoNames EXCEPT !.target = 1]
          /\ inodes = <<Inode(stringify(EmptyStepsConfig), TRUE)>>

NextRoutes ==
    \/ PostDeploy
    \/ \E r \in DOMAIN requests : AccessDone(r)
    \/ \E r \in DOMAIN requests : Respond(r)
    \/ \E p \in Calls : ConfigLoaded(p)
    \/ \E p \in Calls : StepDone(p)
    \/ \E p \in Calls : HealthDone(p)
    \/ \E p \in Calls : E2EWaitDone(p)
    \/ \E p \in Calls : E2ECmdDone(p)
    \/ cancelDeployment

SpecRoutes == InitRoutes /\ [][NextRoutes]_vars

\* a deploy() invocation that passed the guard, has not returned and was not
\* cancelled
RunInFlight == \E p \in Calls : InFlight(p) /\ p \notin cancelledRuns

\* C28: a start request for a project with no configuration file is rejected
\* as a precondition failure (400) and a start request made while a run is in
\* flight is rejected as a conflict (409); in both cases deploy() is not
\* invoked, currentDeployment and its record are unchanged and no event is
\* emitted.
C28_StartPreconditions ==
    [][\A r \in DOMAIN requests :
          (requests[r].pc = "checking" /\ requests'[r].pc # "checking"
              /\ (names.target = 0 \/ RunInFlight)) =>
                /\ requests'[r] = Request(IF names.target = 0 THEN "400" ELSE "409")
                /\ UNCHANGED <<dep, cur, events, inv>>]_vars

\* C37: the POST /deploy handler starts the pipeline in the background and
\* responds immediately: its success response carrying the deploymentId is sent
\* before the run reaches a terminal state, while deploy() has not returned.
C37_RespondsBeforeTerminal ==
    [][\A r \in DOMAIN requests :
          (requests[r].pc = "started" /\ requests'[r].pc = "200") =>
              /\ InFlight(requests[r].call)
              /\ dep[requests'[r].deploymentId].status \notin {"success", "failed"}]_vars

\* ===================================================== E2E count parsing
\* runE2ETests after executeCommand has resolved: the counts are read from
\* result.output with /(\d+) passed.*?(\d+) failed.*?(\d+) skipped/i, the
\* status from result.success.

\* tokens in one output
MaxTokens == 5

\* the digit strings that occur in an output
Numerals == {<<3>>, <<1, 2>>}

\* An output is a sequence of tokens.  A count token is a maximal run of
\* digits, one space and a word (`12 passed`), in any letter case; two count
\* tokens that follow each other stand on one line with ", " between them; a
\* line break token ends the line.
Count(digits, word) == [digits |-> digits, word |-> word]

LineBreak == [digits |-> <<>>, word |-> "\n"]

Tokens ==
    {Count(d, w) : d \in Numerals, w \in {"passed", "failed", "skipped"}}
        \cup {LineBreak}

Outputs == UNION {[1..n -> Tokens] : n \in 0..MaxTokens}

\* a `.` that matches a line break too
DotAll(tok) == TRUE

\* `.` matches every character of the token: any character but a line break
Dot(tok) == tok.word # "\n"

\* `.*?` matches what lies between token i and token j
Gap(out, i, j) == \A x \in (i + 1)..(j - 1) : Dot(out[x])

\* `(\d+) skipped` matches at k, after a gap from j
SkippedAfter(out, j) ==
    {k \in (j + 1)..Len(out) : out[k].word = "skipped" /\ Gap(out, j, k)}

\* `(\d+) failed.*?(\d+) skipped` matches at j, after a gap from i
FailedAfter(out, i) ==
    {j \in (i + 1)..Len(out) :
        out[j].word = "failed" /\ Gap(out, i, j) /\ SkippedAfter(out, j) # {}}

\* the whole expression matches from token i on
MatchesAt(out, i) == out[i].word = "passed" /\ FailedAfter(out, i) # {}

Least(S) == CHOOSE x \in S : \A y \in S : x <= y

\* result.output.match(...): the leftmost match, each lazy gap as short as
\* it can be; the three groups are digit strings
playwrightMatch(out) ==
    LET starts == {i \in DOMAIN out : MatchesAt(out, i)} IN
    IF starts = {} THEN <<>>
    ELSE LET i == Least(starts)
             j == Least(FailedAfter(out, i))
             k == Least(SkippedAfter(out, j))
         IN  <<out[i].digits, out[j].digits, out[k].digits>>

\* parseInt(digits, 10)
RECURSIVE parseInt(_)
parseInt(digits) ==
    IF digits = <<>> THEN 0
    ELSE 10 * parseInt(SubSeq(digits, 1, Len(digits) - 1)) + digits[Len(digits)]

\* the E2ETestResult runE2ETests returns for the executor's result; an unset
\* count is <<>>, a set one <<n>>
E2ETestResult(result) ==
    LET m == playwrightMatch(result.output) IN
    [status  |-> IF result.success THEN "passed" ELSE "failed",
     passed  |-> IF m # <<>> THEN <<parseInt(m[1])>> ELSE <<>>,
     failed  |-> IF m # <<>> THEN <<parseInt(m[2])>> ELSE <<>>,
     skipped |-> IF m # <<>> THEN <<parseInt(m[3])>> ELSE <<>>,
     error   |-> result.error]

\* the result r, with a note of how the command ended
Ran(r, how) ==
    [status |-> r.status, passed |-> r.passed, failed |-> r.failed,
     skipped |-> r.skipped, error |-> r.error, ran |-> how]

\* executeCommand resolves for the E2E command, which closed with an exit
\* code or timed out, and runE2ETests returns
runE2ETests ==
    /\ e2eResult.status = "none"
    /\ \/ \E code \in {0, 1} :
             e2eResult' = Ran(E2ETestResult(onClose(<<"code", code>>, testOutput, <<>>)),
                              IF code = 0 THEN "exit 0" ELSE "exit 1")
       \/ e2eResult' = Ran(E2ETestResult(onTimeout(testOutput)), "timeout")
    /\ UNCHANGED testOutput
    /\ UNCHANGED outsideParse

InitParse ==
    /\ PipelineIdle /\ ExecIdle /\ WaitIdle /\ StoreIdle /\ RoutesIdle /\ EmitterIdle
    /\ testOutput \in Outputs
    /\ e2eResult = NoE2EResult

NextParse == runE2ETests

SpecParse == InitParse /\ [][NextParse]_vars

\* the number a digit string denotes
Denotes(digits) ==
    IF Len(digits) = 1 THEN digits[1] ELSE 10 * digits[1] + digits[2]

\* `<p> passed, <f> failed, <s> skipped` begins at token i
SummaryAt(out, i) ==
    /\ i + 2 <= Len(out)
    /\ out[i].word = "passed"
    /\ out[i + 1].word = "failed"
    /\ out[i + 2].word = "skipped"

\* the places <<i, j, k>> where a passed, a later failed and a later skipped
\* count stand on one line
OnOneLine(out) ==
    {ijk \in (DOMAIN out) \X (DOMAIN out) \X (DOMAIN out) :
        /\ ijk[1] < ijk[2] /\ ijk[2] < ijk[3]
        /\ out[ijk[1]].word = "passed" /\ out[ijk[2]].word = "failed"
        /\ out[ijk[3]].word = "skipped"
        /\ \A x \in ijk[1]..ijk[3] : out[x] # LineBreak}

Counts(r) == <<r.passed, r.failed, r.skipped>>

\* C29 as stated: when the output contains `<p> passed, <f> failed, <s>
\* skipped` the result reports passed = p, failed = f and skipped = s; when no
\* passed, failed and skipped counts follow each other the three counts are
\* unset; the status is passed if and only if the command exited with code 0.
C29_CountParsing ==
    e2eResult.status # "none" =>
        /\ \A i \in DOMAIN testOutput :
              SummaryAt(testOutput, i) =>
                  Counts(e2eResult) = << <<Denotes(testOutput[i].digits)>>,
                                         <<Denotes(testOutput[i + 1].digits)>>,
                                         <<Denotes(testOutput[i + 2].digits)>> >>
        /\ OnOneLine(testOutput) = {} => Counts(e2eResult) = << <<>>, <<>>, <<>> >>
        /\ e2eResult.status = "passed" <=> e2eResult.ran = "exit 0"

\* C29, amended: the counts are those of the first place where a passed, a
\* later failed and a later skipped count stand on one line, whatever lies
\* between them: the leftmost such passed count, the nearest failed count
\* after it that a skipped count follows, and the nearest skipped count after
\* that; with no such place the three counts are unset; the status is passed
\* if and only if the command exited with code 0 before its timeout.
C29_CountParsingAmended ==
    e2eResult.status # "none" =>
        LET places == OnOneLine(testOutput) IN
        /\ \A ijk \in places :
              (\A xyz \in places :
                  \/ ijk[1] < xyz[1]
                  \/ ijk[1] = xyz[1] /\ ijk[2] < xyz[2]
                  \/ ijk[1] = xyz[1] /\ ijk[2] = xyz[2] /\ ijk[3] <= xyz[3]) =>
                  Counts(e2eResult) = << <<Denotes(testOutput[ijk[1]].digits)>>,
                                         <<Denotes(testOutput[ijk[2]].digits)>>,
                                         <<Denotes(testOutput[ijk[3]].digits)>> >>
        /\ places = {} => Counts(e2eResult) = << <<>>, <<>>, <<>> >>
        /\ e2eResult.status = "passed" <=> e2eResult.ran = "exit 0"

C29_Witness ==
    /\ e2eResult.status = "passed"
    /\ Len(testOutput) = 4
    /\ testOutput[1] = Count(<<3>>, "passed")
    /\ SummaryAt(testOutput, 2)
    /\ testOutput[2].digits = <<1, 2>>
    /\ e2eResult.passed = <<3>>

\* ============================================ the current-deployment slot
\* getCurrentDeployment(): the reference this.currentDeployment, 0 for null
getCurrentDeployment == cur

\* getDeploymentHistory(projectPath, limit): the current DeploymentResult
\* alone, or nothing
getDeploymentHistory(projectPath, limit) ==
    IF cur # 0 THEN <<dep[cur]>> ELSE <<>>

\* C30: once the current DeploymentResult has status success or failed,
\* getCurrentDeployment() and getDeploymentHistory() return that record with
\* every field unchanged for as long as no deploy() has replaced it; and
\* getDeploymentHistory() returns at most one element, the current record,
\* whatever projectPath and limit are.
C30_SlotRetained ==
    [][\A projectPath \in {"a", "b"}, limit \in 0..2 :
          /\ (/\ getCurrentDeployment # 0
              /\ dep[getCurrentDeployment].status \in {"success", "failed"}
              /\ getCurrentDeployment' = getCurrentDeployment) =>
                 /\ dep'[getCurrentDeployment'] = dep[getCurrentDeployment]
                 /\ getDeploymentHistory(projectPath, limit)'
                       = getDeploymentHistory(projectPath, limit)
          /\ Len(getDeploymentHistory(projectPath, limit)') <= 1
          /\ getCurrentDeployment' # 0 =>
                getDeploymentHistory(projectPath, limit)' = <<dep'[getCurrentDeployment']>>]_vars

\* ================================================ runs and their records
\* the DeploymentResult invocation p created (its index in dep), 0 before
CreatedBy(p) ==
    LET ks == {k \in DOMAIN H(p) : H(p)[k].op = "create"}
    IN  IF ks = {} THEN 0 ELSE H(p)[CHOOSE k \in ks : TRUE].rec

\* C31: a run writes only to the DeploymentResult it created: when deploy(A),
\* cancelDeployment() and deploy(B) follow each other while A's step is still
\* executing, the step results, status changes, finishedAt and error of run A
\* are applied to A's record, never to B's, and A's deploy() call returns the
\* record with A's id.
C31_RunWritesOwnRecord ==
    \A p \in cancelledRuns :
        /\ \A k \in DOMAIN H(p) : H(p)[k].rec = CreatedBy(p)
        /\ inv[p].pc = "returned" => inv[p].ret = CreatedBy(p)

\* number of entries of p's history that start work
WorkStarted(h) == Len(SelectSeq(h, StartsWork))

\* C32: after cancelDeployment() has marked an in-flight run failed, that run
\* starts no new work: no build step, deploy step, health probe or E2E command
\* of the cancelled run is started from then on.
C32_CancelledRunStartsNothing ==
    [][\A p \in cancelledRuns : WorkStarted(inv'[p].h) = WorkStarted(inv[p].h)]_vars

\* C33: isDeploymentRunning() is true in every state in which some deploy()
\* invocation has passed its guard and has not yet returned (loading its
\* configuration, executing a step, probing or running the E2E tests).
C33_RunningWhileInFlight ==
    (\E p \in Calls : InFlight(p)) => isDeploymentRunning

\* C34: in every state of the current DeploymentResult, finishedAt is set if
\* and only if the status is success or failed, and error is set if and only
\* if the status is failed.
C34_FinishedAndErrorFollowStatus ==
    cur # 0 =>
        /\ dep[cur].finishedAt <=> dep[cur].status \in {"success", "failed"}
        /\ dep[cur].error # NoError <=> dep[cur].status = "failed"

\* C35: every emitted event carries the deploymentId of the run whose progress
\* it reports: an event a step or phase of one run produces is never published
\* with the id of another deployment.
C35_EventsCarryOwnId ==
    \A k \in DOMAIN events :
        events[k].by # 0 =>
            events[k].deploymentId = dep[CreatedBy(events[k].by)].id

\* the events published with deployment id d, in order
EventsOfId(d) == SelectSeq(events, LAMBDA e : e.deploymentId = d)

\* C36 (as claimed): for each deployment id, deployment_started is the first
\* event emitted and it is emitted exactly once, when the DeploymentResult is
\* created with status building; the transition from the build phase to the
\* deploy phase emits no second deployment_started.
C36_StartedOncePerId ==
    eventEmitter =>
        \A d \in DOMAIN dep :
            /\ EventsOfId(d) # <<>>
            /\ EventsOfId(d)[1].type = "deployment_started"
            /\ Cardinality({k \in DOMAIN EventsOfId(d) :
                               EventsOfId(d)[k].type = "deployment_started"}) = 1

\* C36 (amended): for each deployment id, deployment_started is the first event
\* emitted, by the run that creates the DeploymentResult with status building;
\* each run emits deployment_started once at that moment and once more when it
\* passes from the build phase to the deploy phase, and at no other time.
C36_StartedAtCreationAndDeployPhase ==
    eventEmitter =>
        /\ \A d \in DOMAIN dep :
              /\ EventsOfId(d) # <<>>
              /\ EventsOfId(d)[1].type = "deployment_started"
              /\ CreatedBy(EventsOfId(d)[1].by) = d
        /\ \A p \in Calls :
              CountBy(p, "deployment_started") =
                  (IF CreatedBy(p) # 0 THEN 1 ELSE 0)
                  + (IF SetStatus(p, "deploying") THEN 1 ELSE 0)

C36_Witness ==
    /\ eventEmitter
    /\ \E p \in Calls :
          /\ SetStatus(p, "deploying")
          /\ CountBy(p, "deployment_started") = 2
          /\ Len(EventsOfId(CreatedBy(p))) > 2

\* C38: every deploy() invocation that passes the guard returns in the end, and
\* the record it created ends with status success or failed and finishedAt
\* set.  Once no invocation is in flight nothing writes to a record that is not
\* the current one any more, so the claim requires that in every such state
\* each record an invocation created is finished.
C38_RecordsEndTerminal ==
    (\A q \in Calls : ~InFlight(q)) =>
        \A p \in Calls :
            CreatedBy(p) # 0 =>
                /\ dep[CreatedBy(p)].status \in {"success", "failed"}
                /\ dep[CreatedBy(p)].finishedAt

\* ======================================================== the event emitter
\* createEventEmitter (apps/server/src/lib/events.ts): two Sets of callbacks
\* and three closures over them.  emit is synchronous; the callbacks are code
\* of the subscribers and may return, throw, or call subscribe and the
\* unsubscribe functions of the emitter while emit is running.

\* callbacks that exist
MaxCallbacks == 2

Callbacks == 1..MaxCallbacks

\* the two Sets: subscribers ("regular") and userAwareSubscribers ("userAware")
Kinds == {"regular", "userAware"}

\* A Set is a list in insertion order; while it is being iterated a deleted
\* entry leaves a hole (0) behind so that the positions of the others stay.
\* Set.prototype.add
add(list, c) ==
    IF \E i \in DOMAIN list : list[i] = c THEN list ELSE Append(list, c)

\* Set.prototype.delete
delete(list, c) == [i \in DOMAIN list |-> IF list[i] = c THEN 0 ELSE list[i]]

\* the Set once no iteration is under way
compact(list) == SelectSeq(list, LAMBDA x : x # 0)

has(list, c) == \E i \in DOMAIN list : list[i] = c

\* what a callback does when it is invoked: it returns, it throws, or it
\* subscribes or unsubscribes a callback of the Set it is invoked from and
\* returns
Behaviours ==
    {[op |-> o, who |-> 1] : o \in {"returns", "throws"}}
        \cup {[op |-> o, who |-> c] : o \in {"subscribes", "unsubscribes"}, c \in Callbacks}

\* the payloads: null, an object without targetUser, an object with one
Payloads == {"null", "plain", "targeted"}

\* (payload as UserTargetedPayload)?.targetUser
targetUserOf(payload) == IF payload = "targeted" THEN "user" ELSE "undefined"

\* the third argument of a regular callback: there is none
NoArgument == "none"

\* the Set of a kind during an emit
SetOf(e, kind) == IF kind = "regular" THEN e.reg ELSE e.ua

\* the body of callback c, invoked from the Set of the given kind: the calls
\* it makes to subscribe (subscribeWithUserFilter) or to an unsubscribe
\* function, which add to or delete from the Set at once
callbackBody(e, kind, c, b) ==
    LET list == SetOf(e, kind)
        who  == b[c].who
    IN  IF b[c].op = "subscribes" /\ ~has(list, who)
        THEN IF kind = "regular"
             THEN [e EXCEPT !.reg = add(list, who), !.added = @ \cup {<<kind, who>>}]
             ELSE [e EXCEPT !.ua = add(list, who), !.added = @ \cup {<<kind, who>>}]
        ELSE IF b[c].op = "unsubscribes" /\ has(list, who)
        THEN IF kind = "regular"
             THEN [e EXCEPT !.reg = delete(list, who), !.removed = @ \cup {<<kind, who>>}]
             ELSE [e EXCEPT !.ua = delete(list, who), !.removed = @ \cup {<<kind, who>>}]
        ELSE e

\* the call of callback c with the arguments emit passes
called(e, kind, c, b, targetUser) ==
    [callbackBody(e, kind, c, b) EXCEPT
        !.calls = Append(@, [kind |-> kind, cb |-> c,
                             targetUser |-> IF kind = "regular" THEN NoArgument
                                            ELSE targetUser])]

\* a call outside any try block: the error of the callback leaves emit
notifyUncaught(e, kind, c, b, targetUser) ==
    LET e1 == called(e, kind, c, b, targetUser)
    IN  IF b[c].op = "throws" THEN [e1 EXCEPT !.threw = TRUE] ELSE e1

\* try { callback(type, payload[, targetUser]) } catch { logger.error(...) }
notify(e, kind, c, b, targetUser) ==
    LET e1 == called(e, kind, c, b, targetUser)
    IN  IF b[c].op = "throws" THEN [e1 EXCEPT !.thrown = @ \cup {<<kind, c>>}] ELSE e1

\* `for (const callback of set)` from position idx on, the regular Set first
\* and the user-aware Set after it: the iteration sees the Set as it is when
\* it reaches a position
RECURSIVE forOf(_, _, _, _, _)
forOf(e, kind, idx, b, targetUser) ==
    IF e.threw THEN e
    ELSE IF idx > Len(SetOf(e, kind))
    THEN IF kind = "regular" THEN forOf(e, "userAware", 1, b, targetUser) ELSE e
    ELSE IF SetOf(e, kind)[idx] = 0 THEN forOf(e, kind, idx + 1, b, targetUser)
    ELSE forOf(notify(e, kind, SetOf(e, kind)[idx], b, targetUser),
               kind, idx + 1, b, targetUser)

\* emit(type, payload), with the behaviour b of the callbacks during this call
emitCall(payload, b) ==
    forOf([reg |-> subscribers, ua |-> userAwareSubscribers, calls |-> <<>>,
           threw |-> FALSE, thrown |-> {}, added |-> {}, removed |-> {}],
          "regular", 1, b, targetUserOf(payload))

\* the subscriptions of a kind, as a set of <<kind, callback>> pairs
Subscribed(reg, ua) ==
    {<<"regular", reg[i]>> : i \in {j \in DOMAIN reg : reg[j] # 0}}
        \cup {<<"userAware", ua[i]>> : i \in {j \in DOMAIN ua : ua[j] # 0}}

\* emit(type, payload) is called
emit ==
    /\ \E payload \in Payloads : \E b \in [Callbacks -> Behaviours] :
       \E e \in {emitCall(payload, b)} :
          /\ subscribers' = compact(e.reg)
          /\ userAwareSubscribers' = compact(e.ua)
          /\ unsubscribed' = (unsubscribed \cup e.removed) \ Subscribed(e.reg, e.ua)
          /\ lastEmit' = [done |-> TRUE,
                          atCall |-> Subscribed(subscribers, userAwareSubscribers),
                          ended |-> unsubscribed,
                          calls |-> e.calls, threw |-> e.threw, thrown |-> e.thrown,
                          added |-> e.added, removed |-> e.removed]
    /\ UNCHANGED outsideEmitter

\* subscribe(callback)
subscribe ==
    /\ \E c \in Callbacks :
          /\ subscribers' = add(subscribers, c)
          /\ unsubscribed' = unsubscribed \ {<<"regular", c>>}
    /\ UNCHANGED <<userAwareSubscribers, lastEmit>>
    /\ UNCHANGED outsideEmitter

\* subscribeWithUserFilter(callback)
subscribeWithUserFilter ==
    /\ \E c \in Callbacks :
          /\ userAwareSubscribers' = add(userAwareSubscribers, c)
          /\ unsubscribed' = unsubscribed \ {<<"userAware", c>>}
    /\ UNCHANGED <<subscribers, lastEmit>>
    /\ UNCHANGED outsideEmitter

\* the function subscribe or subscribeWithUserFilter returned is called,
\* between two emit calls
unsubscribe ==
    /\ \E x \in Subscribed(subscribers, userAwareSubscribers) :
          /\ IF x[1] = "regular"
             THEN /\ subscribers' = compact(delete(subscribers, x[2]))
                  /\ UNCHANGED userAwareSubscribers
             ELSE /\ userAwareSubscribers' = compact(delete(userAwareSubscribers, x[2]))
                  /\ UNCHANGED subscribers
          /\ unsubscribed' = unsubscribed \cup {x}
    /\ UNCHANGED lastEmit
    /\ UNCHANGED outsideEmitter

InitEmitter == PipelineIdle /\ ComponentsIdle

NextEmitter ==
    \/ emit
    \/ subscribe
    \/ subscribeWithUserFilter
    \/ unsubscribe

SpecEmitter == InitEmitter /\ [][NextEmitter]_vars

\* how often the last emit invoked subscription x
TimesCalled(e, x) ==
    Cardinality({k \in DOMAIN e.calls : e.calls[k].kind = x[1] /\ e.calls[k].cb = x[2]})

\* a callback that throws stops neither the remaining callbacks nor emit, and
\* a subscription ended by its unsubscribe function and not made again
\* receives nothing
IsolatedAndSilentAfterUnsubscribe(e) ==
    /\ ~e.threw
    /\ \A x \in e.thrown : TimesCalled(e, x) >= 1
    /\ \A x \in e.ended : x \notin e.added => TimesCalled(e, x) = 0

\* C40 (as claimed): emit(type, payload) invokes every callback that is
\* subscribed at the time of the call, regular and user-aware, exactly once; a
\* callback that throws does not keep the remaining callbacks from being
\* invoked and does not make emit throw; once the unsubscribe function of a
\* subscription has been called, that callback receives no later event.
C40_EmitIsolation ==
    lastEmit.done =>
        /\ IsolatedAndSilentAfterUnsubscribe(lastEmit)
        /\ \A x \in lastEmit.atCall : TimesCalled(lastEmit, x) = 1

\* C40 (amended): emit(type, payload) invokes each callback that is in its Set
\* when the iteration reaches it, the regular ones first.  When no callback
\* changes the subscriptions during the call, every callback subscribed at the
\* time of the call is invoked exactly once and no other; a callback that an
\* earlier callback of the same call unsubscribed is not invoked, and one not
\* subscribed at the time of the call is invoked only if a callback subscribed
\* it during the call.  A callback that throws does not keep the remaining
\* callbacks from being invoked and does not make emit throw; once the
\* unsubscribe function of a subscription has been called, that callback
\* receives no later event until it is subscribed again.
C40_EmitIsolationAmended ==
    lastEmit.done =>
        LET e == lastEmit
            others == (Kinds \X Callbacks) \ e.atCall
        IN  /\ IsolatedAndSilentAfterUnsubscribe(e)
            /\ (e.added = {} /\ e.removed = {}) =>
                  /\ \A x \in e.atCall : TimesCalled(e, x) = 1
                  /\ \A x \in others : TimesCalled(e, x) = 0
            /\ \A x \in e.atCall : x \notin e.removed => TimesCalled(e, x) >= 1
            /\ \A x \in others : TimesCalled(e, x) >= 1 => x \in e.added
            /\ \A k \in DOMAIN e.calls : \A n \in DOMAIN e.calls :
                  (e.calls[k].kind = "userAware" /\ e.calls[n].kind = "regular") => n < k

\* an emit in which the first callback threw and the others were invoked all
\* the same, with an ended subscription left out
C40_Witness ==
    /\ lastEmit.done
    /\ lastEmit.added = {} /\ lastEmit.removed = {}
    /\ Len(lastEmit.calls) >= 3
    /\ <<lastEmit.calls[1].kind, lastEmit.calls[1].cb>> \in lastEmit.thrown
    /\ \E k \in DOMAIN lastEmit.calls : lastEmit.calls[k].kind = "userAware"
    /\ unsubscribed # {}
    /\ ~lastEmit.threw

====
